---- MODULE Spec2Model ----
(***************************************************************************)
(* A model of the fluid engine of pumpkin/src/world/fluid.rs: the          *)
(* FluidManager (pending_updates, current_tick, batch_updates), its        *)
(* scheduler, its per-tick driver and the flow resolver, over a small      *)
(* World of block state ids.                                               *)
(***************************************************************************)
EXTENDS Integers, Sequences, FiniteSets, TLC

VARIABLES
    world,               \* World: loaded position -> block state id
    pending_updates,     \* FluidManager.pending_updates: HashMap<BlockPos, FluidUpdate>
    current_tick,        \* FluidManager.current_tick: u32
    batch_updates,       \* FluidManager.batch_updates: Vec<(BlockPos, u16)>
    pc,                  \* position of the tick call: "idle", "process", "flush"
    updates_to_process,  \* tick's local Vec of drained updates, not yet resolved
    calls,               \* number of external calls made so far (bounded)
    lock_holder,         \* World.fluid_manager: who holds the Mutex, or NoHolder
    handler,             \* the block and item handlers running: where each one is
    batch_kinds,         \* history: for each entry of batch_updates, what pushed it
    snap,                \* history: pending set and world when the running tick began
    resolved,            \* history: updates resolved so far by the running tick
    last                 \* history: the last operation, its inputs and its effects

vars == <<world, pending_updates, current_tick, batch_updates, pc,
          updates_to_process, calls, lock_holder, handler,
          batch_kinds, snap, resolved, last>>

----------------------------------------------------------------------------
(* Program constants (fluid.rs:13-27).                                     *)

FLUID_TICK_RATE == 5
MAX_DOWNWARD_PATH_DISTANCE == 4
DEFAULT_FLOW_WEIGHT == 1000
\* 256 in the source; the drain cap is scaled down so that overload
\* (more due updates than the cap) happens in a small world.
MAX_UPDATES_PER_TICK == 2
WATER_SOURCE_STATE_ID == 86
WATER_LEVEL_1_STATE_ID == 93
WATER_LEVEL_2_STATE_ID == 92
WATER_LEVEL_3_STATE_ID == 91
WATER_LEVEL_4_STATE_ID == 90
WATER_LEVEL_5_STATE_ID == 89
WATER_LEVEL_6_STATE_ID == 88
WATER_LEVEL_7_STATE_ID == 87
\* current_tick is a u32 and wraps at 2^32.  The counter is given 8 bits
\* here, so that a behaviour in which tick is invoked for ever is a cycle of
\* a size that can be searched: the modulus of wrapping_add.
TickModulus == 256

(* Bounds of the model.                                                    *)
MaxTick == 10      \* tick is not invoked once the clock has reached this
MaxCalls == 2      \* external calls (all but tick) in one behaviour
ChannelEnd == 8    \* the channel of the spread scenario is x = 0..ChannelEnd
SpreadMaxTick == 60  \* the ticks run in the spread scenario
MaxStateId == 100  \* block state ids 0..MaxStateId are handed to the level functions
MaxLevelArg == 11  \* and levels -MaxLevelArg..MaxLevelArg
MaxDelay == 1      \* delays 0..MaxDelay are handed to schedule_update

----------------------------------------------------------------------------
(* Level model (fluid.rs:62-110).                                          *)

WaterIds == {WATER_SOURCE_STATE_ID, WATER_LEVEL_1_STATE_ID, WATER_LEVEL_2_STATE_ID,
             WATER_LEVEL_3_STATE_ID, WATER_LEVEL_4_STATE_ID, WATER_LEVEL_5_STATE_ID,
             WATER_LEVEL_6_STATE_ID, WATER_LEVEL_7_STATE_ID}

is_water(state_id) == state_id \in WaterIds

is_source_block(state_id) == state_id = WATER_SOURCE_STATE_ID

\* mutant of get_water_level: the ids of levels 1..7 read in ascending order
get_water_level_ascending(state_id) ==
    IF state_id \in WaterIds /\ state_id # WATER_SOURCE_STATE_ID
    THEN state_id - WATER_SOURCE_STATE_ID
    ELSE IF state_id = WATER_SOURCE_STATE_ID THEN 8 ELSE 0

get_water_level(state_id) ==
    CASE state_id = WATER_SOURCE_STATE_ID -> 8
      [] state_id = WATER_LEVEL_7_STATE_ID -> 7
      [] state_id = WATER_LEVEL_6_STATE_ID -> 6
      [] state_id = WATER_LEVEL_5_STATE_ID -> 5
      [] state_id = WATER_LEVEL_4_STATE_ID -> 4
      [] state_id = WATER_LEVEL_3_STATE_ID -> 3
      [] state_id = WATER_LEVEL_2_STATE_ID -> 2
      [] state_id = WATER_LEVEL_1_STATE_ID -> 1
      [] OTHER -> 0

get_state_id_for_level(level) ==
    CASE level = 8 -> WATER_SOURCE_STATE_ID
      [] level = 7 -> WATER_LEVEL_7_STATE_ID
      [] level = 6 -> WATER_LEVEL_6_STATE_ID
      [] level = 5 -> WATER_LEVEL_5_STATE_ID
      [] level = 4 -> WATER_LEVEL_4_STATE_ID
      [] level = 3 -> WATER_LEVEL_3_STATE_ID
      [] level = 2 -> WATER_LEVEL_2_STATE_ID
      [] level = 1 -> WATER_LEVEL_1_STATE_ID
      [] OTHER -> 0

----------------------------------------------------------------------------
(* The World and the Topology collaborators, as the engine consumes them.  *)

\* A vertical slice of the world, x = 0..3 (West to East), y = 0..2 (Down to
\* Up), z = 0.
Slice == {<<x, y, 0>> : x \in 0..3, y \in 0..2}

\* The loaded region: the positions the World holds a block state for.  Every
\* read of a position outside it fails (Err).
Loaded == DOMAIN world

\* A solid block (stone) stands for every non-fluid, non-replaceable state.
SolidId == 1

BlockIds == {0, SolidId} \cup WaterIds

\* BlockDirection::to_offset and BlockPos::offset
offset(pos, direction) ==
    CASE direction = "Down"  -> <<pos[1], pos[2] - 1, pos[3]>>
      [] direction = "Up"    -> <<pos[1], pos[2] + 1, pos[3]>>
      [] direction = "North" -> <<pos[1], pos[2], pos[3] - 1>>
      [] direction = "South" -> <<pos[1], pos[2], pos[3] + 1>>
      [] direction = "West"  -> <<pos[1] - 1, pos[2], pos[3]>>
      [] direction = "East"  -> <<pos[1] + 1, pos[2], pos[3]>>

opposite(direction) ==
    CASE direction = "Down"  -> "Up"
      [] direction = "Up"    -> "Down"
      [] direction = "North" -> "South"
      [] direction = "South" -> "North"
      [] direction = "West"  -> "East"
      [] direction = "East"  -> "West"

\* BlockDirection::all() and BlockDirection::horizontal(), in iteration order
AllDirections == <<"Down", "Up", "North", "South", "West", "East">>
HorizontalDirections == <<"North", "South", "West", "East">>

\* World::get_block_state_id(pos) / get_block_state(pos) return Ok
ReadOk(pos) == pos \in Loaded

\* the air and replaceable flags of World::get_block_state(pos): a cell that
\* fluid may flow into is air or replaceable; water itself is replaceable
Passable(w, pos) == w[pos] = 0 \/ is_water(w[pos])

----------------------------------------------------------------------------
(* The state an engine call threads through its statements:                *)
(*   w  the World,  p  pending_updates,  b  batch_updates,                 *)
(* and, as history of the call, imm (the writes made directly to the       *)
(* World, each as <<position, new id, id replaced>>), reqs (the           *)
(* schedule_update requests made, each with the entry pending for its      *)
(* position before and after it), bk (for every entry of   *)
(* b, the statement that pushed it) and br (the branch of the resolver     *)
(* that ran).                                                              *)

St(w, p, b, bk) ==
    [w |-> w, p |-> p, b |-> b, bk |-> bk, imm |-> <<>>, reqs |-> <<>>, br |-> "none"]

\* World::set_block_state(pos, id), called directly
set_block_state(st, pos, state_id) ==
    [st EXCEPT !.w = [@ EXCEPT ![pos] = state_id],
               !.imm = Append(@, <<pos, state_id, st.w[pos]>>)]

\* self.batch_updates.push((pos, id)), by the statement named kind
batch_push(st, pos, state_id, kind) ==
    [st EXCEPT !.b = Append(@, <<pos, state_id>>), !.bk = Append(@, kind)]

Branch(st, name) == [st EXCEPT !.br = name]

\* mutant of MapInsert: the update is stored under the key of the cell below
MapInsertBelow(m, key, value) ==
    [k \in DOMAIN m \cup {offset(key, "Down")} |->
        IF k = offset(key, "Down") THEN value ELSE m[k]]

\* HashMap::insert(position, update)
MapInsert(m, key, value) ==
    [k \in DOMAIN m \cup {key} |-> IF k = key THEN value ELSE m[k]]

\* HashMap::remove for every key of keys
MapRemove(m, keys) == [k \in DOMAIN m \ keys |-> m[k]]

\* the due tick of a request: self.current_tick + (FLUID_TICK_RATE + delay), in u32
ScheduledTick(delay) == (current_tick + (FLUID_TICK_RATE + delay)) % TickModulus

\* mutant of KeepsExisting: at the same due tick an equal priority replaces
KeepsExistingStrict(existing, scheduled_tick, priority) ==
    \/ existing.tick_scheduled < scheduled_tick
    \/ (existing.tick_scheduled = scheduled_tick /\ existing.priority > priority)

\* the test that keeps the existing entry (fluid.rs:181-182)
KeepsExisting(existing, scheduled_tick, priority) ==
    \/ existing.tick_scheduled < scheduled_tick
    \/ (existing.tick_scheduled = scheduled_tick /\ existing.priority >= priority)

\* mutant of schedule_pending: the observed state id is not looked at
schedule_pending_any_id(m, position, fluid_state_id, delay, priority) ==
    LET scheduled_tick == ScheduledTick(delay)
        update == [position |-> position,
                   fluid_state_id |-> fluid_state_id,
                   tick_scheduled |-> scheduled_tick,
                   priority |-> priority]
    IN  IF position \in DOMAIN m /\ KeepsExisting(m[position], scheduled_tick, priority)
        THEN m
        ELSE MapInsert(m, position, update)

\* FluidManager::schedule_update on the pending map m
schedule_pending(m, position, fluid_state_id, delay, priority) ==
    IF fluid_state_id # 0 /\ ~is_water(fluid_state_id)
    THEN m
    ELSE LET scheduled_tick == ScheduledTick(delay)
             update == [position |-> position,
                        fluid_state_id |-> fluid_state_id,
                        tick_scheduled |-> scheduled_tick,
                        priority |-> priority]
         IN  IF position \in DOMAIN m /\ KeepsExisting(m[position], scheduled_tick, priority)
             THEN m
             ELSE MapInsert(m, position, update)

\* FluidManager::schedule_update as a statement of an engine call
Entry(m, position) == IF position \in DOMAIN m THEN <<m[position]>> ELSE <<>>

schedule_update(st, position, fluid_state_id, delay, priority) ==
    LET after == schedule_pending(st.p, position, fluid_state_id, delay, priority)
    IN  [st EXCEPT !.p = after,
                   !.reqs = Append(@, [position |-> position,
                                       fluid_state_id |-> fluid_state_id,
                                       delay |-> delay, priority |-> priority,
                                       before |-> Entry(st.p, position),
                                       after |-> Entry(after, position)])]

----------------------------------------------------------------------------
(* Source-reachability search (fluid.rs:534-654).                          *)

Last(s) == s[Len(s)]
Front(s) == SubSeq(s, 1, Len(s) - 1)

RECURSIVE SeqToSet(_)
SeqToSet(s) == IF s = <<>> THEN {} ELSE {s[1]} \cup SeqToSet(Tail(s))

\* what the search carries: its stack, its visited set, whether a source has
\* been met and, as history, every push it has made, in order
NewSearch(position) ==
    [stack |-> <<>>, visited |-> {position}, pushes |-> <<>>, found |-> FALSE]

\* mutant of mark_visited: a pushed position is not remembered
mark_visited_skipped(visited, pos) == visited

\* visited.insert(pos)
mark_visited(visited, pos) == visited \cup {pos}

\* stack.push(pos); visited.insert(pos);
push(s, pos) ==
    [s EXCEPT !.stack = Append(@, pos),
              !.visited = mark_visited(@, pos),
              !.pushes = Append(@, pos)]

\* the loops over BlockDirection::horizontal() from the i-th direction on: the
\* one that starts the search (fluid.rs:571-588), which does not look for
\* sources, and the one of the search loop (611-634), which does
RECURSIVE scan_horizontal(_, _, _, _, _, _)
scan_horizontal(w, s, from, from_level, sources, i) ==
    IF i > 4 \/ s.found THEN s
    ELSE LET next_pos == offset(from, HorizontalDirections[i])
             after == IF next_pos \in s.visited \/ ~ReadOk(next_pos) THEN s
                      ELSE IF sources /\ is_source_block(w[next_pos])
                      THEN [s EXCEPT !.found = TRUE]
                      ELSE IF is_water(w[next_pos]) /\ get_water_level(w[next_pos]) > from_level
                      THEN push(s, next_pos)
                      ELSE s
         IN  scan_horizontal(w, after, from, from_level, sources, i + 1)

\* the checks of the cell above: the one that starts the search (591-597),
\* which tests neither the visited set nor for a source, and the one of the
\* search loop (637-649)
scan_above(w, s, from, sources) ==
    LET above == offset(from, "Up")
    IN  IF s.found THEN s
        ELSE IF (sources /\ above \in s.visited) \/ ~ReadOk(above) THEN s
        ELSE IF sources /\ is_source_block(w[above]) THEN [s EXCEPT !.found = TRUE]
        ELSE IF is_water(w[above]) THEN push(s, above)
        ELSE s

\* the while-let loop of the depth-first search
RECURSIVE dfs_loop(_, _)
dfs_loop(w, s) ==
    IF s.found \/ s.stack = <<>> THEN s
    ELSE LET current_pos == Last(s.stack)
             popped == [s EXCEPT !.stack = Front(@)]
         IN  IF ~ReadOk(current_pos) THEN dfs_loop(w, popped)
             ELSE IF is_source_block(w[current_pos]) THEN [popped EXCEPT !.found = TRUE]
             ELSE dfs_loop(w, scan_above(w,
                                  scan_horizontal(w, popped, current_pos,
                                                  get_water_level(w[current_pos]), TRUE, 1),
                                  current_pos, TRUE))

\* the search from a readable position (fluid.rs:564-653)
source_search(w, position) ==
    dfs_loop(w, scan_above(w,
                    scan_horizontal(w, NewSearch(position), position,
                                    get_water_level(w[position]), FALSE, 1),
                    position, FALSE))

has_source_connection(w, position) ==
    IF ~ReadOk(position) THEN FALSE
    ELSE LET current_state_id == w[position]
             current_level == get_water_level(current_state_id)
             AdjacentSource(d) == LET a == offset(position, d)
                                  IN  ReadOk(a) /\ is_source_block(w[a])
         IN  IF is_source_block(current_state_id) THEN TRUE
             ELSE IF \E i \in 1..6 : AdjacentSource(AllDirections[i]) THEN TRUE
             ELSE IF current_level = 7 THEN FALSE
             ELSE source_search(w, position).found

----------------------------------------------------------------------------
(* Path finder (fluid.rs:821-908).                                         *)

\* mutant of too_far: cells at the maximum distance are still expanded
too_far_late(distance) == distance > MAX_DOWNWARD_PATH_DISTANCE

\* "Stop if too far"
too_far(distance) == distance >= MAX_DOWNWARD_PATH_DISTANCE

\* find_path_downward: Some(d) is d, None is -1.
\* queue holds <<position, distance>> pairs.
RECURSIVE bfs_loop(_, _, _)
bfs_loop(w, queue, visited) ==
    IF queue = <<>> THEN -1
    ELSE LET pos == queue[1][1]
             distance == queue[1][2]
             rest == Tail(queue)
         IN  IF too_far(distance) THEN bfs_loop(w, rest, visited)
             ELSE LET Flowable(d) == LET n == offset(pos, d)
                                     IN  n \notin visited /\ ReadOk(n) /\ Passable(w, n)
                      Opening(d) == LET below_pos == offset(offset(pos, d), "Down")
                                    IN  ReadOk(below_pos) /\ Passable(w, below_pos)
                      ds == SelectSeq(HorizontalDirections, Flowable)
                      added == [i \in 1..Len(ds) |-> <<offset(pos, ds[i]), distance + 1>>]
                      addedPos == {offset(pos, ds[i]) : i \in 1..Len(ds)}
                  IN  IF \E i \in 1..Len(ds) : Opening(ds[i]) THEN distance + 1
                      ELSE bfs_loop(w, rest \o added, visited \cup addedPos)

find_path_downward(w, start_pos) == bfs_loop(w, <<<<start_pos, 0>>>>, {start_pos})

\* one entry of calculate_flow_weights, for `direction`
flow_weight(w, position, direction) ==
    LET adjacent_pos == offset(position, direction)
        below_adjacent == offset(adjacent_pos, "Down")
    IN  IF ~ReadOk(adjacent_pos) THEN DEFAULT_FLOW_WEIGHT
        ELSE IF ~Passable(w, adjacent_pos) THEN DEFAULT_FLOW_WEIGHT
        ELSE IF ReadOk(below_adjacent) /\ ~Passable(w, below_adjacent) THEN 0
        ELSE LET distance == find_path_downward(w, adjacent_pos)
             IN  IF distance = -1 THEN DEFAULT_FLOW_WEIGHT ELSE distance

\* calculate_flow_weights: the weights of North, South, West, East
calculate_flow_weights(w, position) ==
    [i \in 1..4 |-> flow_weight(w, position, HorizontalDirections[i])]

\* mutant of Min4: the weight of the first direction
first_weight(s) == s[1]

\* `weights.iter().map(..).min()` (fluid.rs:689-692)
Min4(s) == CHOOSE m \in {s[i] : i \in 1..4} : \A i \in 1..4 : m <= s[i]

----------------------------------------------------------------------------
(* Flow resolver (fluid.rs:238-531, 656-819).                              *)

\* try_flow_downward
try_flow_downward(st, position) ==
    LET below_pos == offset(position, "Down")
    IN  IF /\ ReadOk(below_pos)
           /\ \/ st.w[below_pos] = 0
              \/ (is_water(st.w[below_pos]) /\ ~is_source_block(st.w[below_pos]))
        THEN schedule_update(batch_push(st, below_pos, WATER_LEVEL_7_STATE_ID, "down"),
                             below_pos, WATER_LEVEL_7_STATE_ID, 0, 3)
        ELSE st

\* "Check if already has better water" (fluid.rs:716-729), the adjacent cell readable
can_place(w, adjacent_pos, next_level) ==
    IF is_water(w[adjacent_pos])
    THEN IF is_source_block(w[adjacent_pos]) THEN FALSE
         ELSE get_water_level(w[adjacent_pos]) < next_level
    ELSE TRUE

\* mutant of source_flow_step: over a drop both updates are scheduled at
\* priority 3
source_flow_step_top(st, position, weights, min_weight, i) ==
    LET adjacent_pos == offset(position, HorizontalDirections[i])
        below_adjacent == offset(adjacent_pos, "Down")
        has_ground_below == ReadOk(below_adjacent) /\ ~Passable(st.w, below_adjacent)
        next_state_id == get_state_id_for_level(7)
        priority == IF has_ground_below THEN 1 ELSE 3
        placed == schedule_update(batch_push(st, adjacent_pos, next_state_id, "source_side"),
                                  adjacent_pos, next_state_id, 0, priority)
    IN  IF /\ weights[i] = min_weight
           /\ ReadOk(adjacent_pos)
           /\ Passable(st.w, adjacent_pos)
           /\ can_place(st.w, adjacent_pos, 7)
        THEN IF has_ground_below THEN placed
             ELSE schedule_update(placed, below_adjacent, 0, 0, 3)
        ELSE st

\* the body of the loop of try_flow_source_horizontally for the i-th weight
source_flow_step(st, position, weights, min_weight, i) ==
    LET adjacent_pos == offset(position, HorizontalDirections[i])
        below_adjacent == offset(adjacent_pos, "Down")
        has_ground_below == ReadOk(below_adjacent) /\ ~Passable(st.w, below_adjacent)
        next_state_id == get_state_id_for_level(7)
        priority == IF has_ground_below THEN 1 ELSE 2
        placed == schedule_update(batch_push(st, adjacent_pos, next_state_id, "source_side"),
                                  adjacent_pos, next_state_id, 0, priority)
    IN  IF /\ weights[i] = min_weight
           /\ ReadOk(adjacent_pos)
           /\ Passable(st.w, adjacent_pos)
           /\ can_place(st.w, adjacent_pos, 7)
        THEN IF has_ground_below THEN placed
             ELSE schedule_update(placed, below_adjacent, 0, 0, 2)
        ELSE st

try_flow_source_horizontally(st, position) ==
    LET weights == calculate_flow_weights(st.w, position)
        min_weight == Min4(weights)
        F(s, i) == source_flow_step(s, position, weights, min_weight, i)
    IN  IF min_weight = DEFAULT_FLOW_WEIGHT THEN st
        ELSE F(F(F(F(st, 1), 2), 3), 4)

\* mutant of should_flow: a failed read of the adjacent cell counts as air
should_flow_unread(w, adjacent_pos, next_level) ==
    IF ~ReadOk(adjacent_pos) THEN TRUE
    ELSE IF is_source_block(w[adjacent_pos]) THEN FALSE
    ELSE IF is_water(w[adjacent_pos]) THEN get_water_level(w[adjacent_pos]) < next_level
    ELSE Passable(w, adjacent_pos)

\* should_flow of try_flow_horizontally (fluid.rs:766-782)
should_flow(w, adjacent_pos, next_level) ==
    IF ~ReadOk(adjacent_pos) THEN FALSE
    ELSE IF is_source_block(w[adjacent_pos]) THEN FALSE
    ELSE IF is_water(w[adjacent_pos]) THEN get_water_level(w[adjacent_pos]) < next_level
    ELSE Passable(w, adjacent_pos)

\* "Schedule checks for blocks adjacent to this one": one next_dir
check_next(st, adjacent_pos, direction, next_dir) ==
    LET next_pos == offset(adjacent_pos, next_dir)
    IN  IF next_dir # opposite(direction) /\ ReadOk(next_pos) /\ st.w[next_pos] = 0
        THEN schedule_update(st, next_pos, 0, 0, 1)
        ELSE st

\* the body of the loop of try_flow_horizontally for one direction
flow_step(st, position, next_level, direction) ==
    LET adjacent_pos == offset(position, direction)
        next_state_id == get_state_id_for_level(next_level)
        below_adjacent == offset(adjacent_pos, "Down")
        below_is_air == ReadOk(below_adjacent) /\ Passable(st.w, below_adjacent)
        pushed == batch_push(st, adjacent_pos, next_state_id, "side")
        sched == IF below_is_air
                 THEN schedule_update(schedule_update(pushed, adjacent_pos, next_state_id, 0, 3),
                                      below_adjacent, 0, 0, 3)
                 ELSE schedule_update(pushed, adjacent_pos, next_state_id, 0, 1)
        C(s, d) == check_next(s, adjacent_pos, direction, d)
    IN  IF should_flow(st.w, adjacent_pos, next_level)
        THEN C(C(C(C(sched, "North"), "South"), "West"), "East")
        ELSE st

\* mutant of next_level: horizontal flow loses two levels
next_level_two(current_level) == current_level - 2

\* mutant of next_level: horizontal flow keeps the level
next_level_kept(current_level) == current_level

\* "Horizontal flow decreases level by 1"
next_level(current_level) == current_level - 1

try_flow_horizontally(st, position, current_level) ==
    LET F(s, d) == flow_step(s, position, next_level(current_level), d)
    IN  IF current_level <= 1 THEN st
        ELSE F(F(F(F(st, "North"), "South"), "West"), "East")

\* mutant of waterfall_step: the side cell is written through the batch buffer
waterfall_step_batched(st, position, level, direction) ==
    LET side_pos == offset(position, direction)
        below_side_pos == offset(side_pos, "Down")
        can_flow_side == ReadOk(side_pos) /\ Passable(st.w, side_pos)
        below_is_air == ReadOk(below_side_pos) /\ Passable(st.w, below_side_pos)
        side_state_id == get_state_id_for_level(level - 1)
    IN  IF can_flow_side /\ below_is_air
        THEN schedule_update(
                 schedule_update(batch_push(st, side_pos, side_state_id, "waterfall"),
                                 side_pos, side_state_id, 0, 3),
                 below_side_pos, 0, 0, 3)
        ELSE st

\* the body of the "CRITICAL WATERFALL LOGIC" loop for one direction
waterfall_step(st, position, level, direction) ==
    LET side_pos == offset(position, direction)
        below_side_pos == offset(side_pos, "Down")
        can_flow_side == ReadOk(side_pos) /\ Passable(st.w, side_pos)
        below_is_air == ReadOk(below_side_pos) /\ Passable(st.w, below_side_pos)
        side_state_id == get_state_id_for_level(level - 1)
    IN  IF can_flow_side /\ below_is_air
        THEN schedule_update(
                 schedule_update(set_block_state(st, side_pos, side_state_id),
                                 side_pos, side_state_id, 0, 3),
                 below_side_pos, 0, 0, 3)
        ELSE st

waterfall(st, position, level) ==
    LET F(s, d) == waterfall_step(s, position, level, d)
    IN  IF level > 1 THEN F(F(F(F(st, "North"), "South"), "West"), "East")
        ELSE st

\* a water cell that is not a source, at a readable position
FlowingAt(w, pos) == ReadOk(pos) /\ is_water(w[pos]) /\ ~is_source_block(w[pos])

\* the neighbours start_water_receding collects, as <<position, level>>, in
\* the order pushed: horizontal ones of level <= level, then above, then below
receding_neighbours(w, position, level) ==
    LET Good(d) == /\ FlowingAt(w, offset(position, d))
                   /\ get_water_level(w[offset(position, d)]) <= level
        ds == SelectSeq(HorizontalDirections, Good)
        Vert(d) == FlowingAt(w, offset(position, d))
        vs == SelectSeq(<<"Up", "Down">>, Vert)
        all == ds \o vs
    IN  [i \in 1..Len(all) |->
            <<offset(position, all[i]), get_water_level(w[offset(position, all[i])])>>]

\* neighbors.sort_by(|a, b| a.1.cmp(&b.1)): a stable sort by level
sort_by_level(neighbors) ==
    LET n == Len(neighbors)
        Rank(i) == 1 + Cardinality({j \in 1..n : neighbors[j][2] < neighbors[i][2]})
                     + Cardinality({j \in 1..(i - 1) : neighbors[j][2] = neighbors[i][2]})
    IN  [r \in 1..n |-> neighbors[CHOOSE i \in 1..n : Rank(i) = r]]

\* mutant of cascade_priority: every neighbour at the top priority
cascade_priority_flat(i) == 3

\* the priority of the neighbour at index i (from 0): 3 - i.min(3)
cascade_priority(i) == 3 - (IF i < 3 THEN i ELSE 3)

\* the enumerate loop of start_water_receding from index i (from 0)
RECURSIVE schedule_ranked(_, _, _)
schedule_ranked(st, neighbors, i) ==
    IF i >= Len(neighbors) THEN st
    ELSE schedule_ranked(
             schedule_update(st, neighbors[i + 1][1],
                             get_state_id_for_level(neighbors[i + 1][2]),
                             i, cascade_priority(i)),
             neighbors, i + 1)

\* mutant of this_delay: the decaying cell is re-evaluated with no extra delay
this_delay_none(neighbors) == 0

\* `let this_delay = neighbors.len() as u32`
this_delay(neighbors) == Len(neighbors)

start_water_receding(st, position, level) ==
    LET neighbors == sort_by_level(receding_neighbours(st.w, position, level))
    IN  schedule_update(schedule_ranked(st, neighbors, 0),
                        position, get_state_id_for_level(level), this_delay(neighbors), 1)

\* number of horizontally adjacent source blocks
adjacent_source_count(w, position) ==
    Cardinality({i \in 1..4 :
        LET a == offset(position, HorizontalDirections[i])
        IN  ReadOk(a) /\ is_source_block(w[a])})

\* highest level among the horizontally adjacent flowing cells, 0 if none
highest_level(w, position) ==
    LET ls == {0} \cup {get_water_level(w[offset(position, HorizontalDirections[i])]) :
                   i \in {j \in 1..4 : FlowingAt(w, offset(position, HorizontalDirections[j]))}}
    IN  CHOOSE m \in ls : \A l \in ls : l <= m

\* mutant of place_now: the write goes through the batch buffer
place_batched(st, position, state_id, priority, name) ==
    Branch(schedule_update(batch_push(st, position, state_id, name),
                           position, state_id, 0, priority), name)

\* World::set_block_state followed by schedule_update of the same cell
place_now(st, position, state_id, priority, name) ==
    Branch(schedule_update(set_block_state(st, position, state_id),
                           position, state_id, 0, priority), name)

\* mutant of process_air_block_update: the cell below is not looked at
process_air_block_update_unsupported(st, position) ==
    LET above_pos == offset(position, "Up")
        highest == highest_level(st.w, position)
    IN  IF adjacent_source_count(st.w, position) >= 2
        THEN place_now(st, position, WATER_SOURCE_STATE_ID, 2, "air_source")
        ELSE IF ReadOk(above_pos) /\ is_water(st.w[above_pos])
        THEN place_now(st, position, WATER_LEVEL_7_STATE_ID, 1, "air_above")
        ELSE IF adjacent_source_count(st.w, position) >= 1
        THEN place_now(st, position, WATER_LEVEL_7_STATE_ID, 1, "air_beside_source")
        ELSE IF highest > 1
        THEN place_now(st, position, get_state_id_for_level(highest - 1), 1, "air_inflow")
        ELSE Branch(st, "air_none")

process_air_block_update(st, position) ==
    LET above_pos == offset(position, "Up")
        below_pos == offset(position, "Down")
        ground_below == ReadOk(below_pos) /\ ~Passable(st.w, below_pos)
        highest == highest_level(st.w, position)
    IN  IF adjacent_source_count(st.w, position) >= 2
        THEN place_now(st, position, WATER_SOURCE_STATE_ID, 2, "air_source")
        ELSE IF ReadOk(above_pos) /\ is_water(st.w[above_pos])
        THEN place_now(st, position, WATER_LEVEL_7_STATE_ID, 1, "air_above")
        ELSE IF adjacent_source_count(st.w, position) >= 1 /\ ground_below
        THEN place_now(st, position, WATER_LEVEL_7_STATE_ID, 1, "air_beside_source")
        ELSE IF highest > 1 /\ ground_below
        THEN place_now(st, position, get_state_id_for_level(highest - 1), 1, "air_inflow")
        ELSE Branch(st, "air_none")

\* mutant of decay: the new state id is taken one below the current id,
\* which is one level up
decay_by_id(st, position, level) ==
    LET new_level == level - 1
        new_state_id == st.w[position] - 1
        receding == start_water_receding(batch_push(st, position, new_state_id, "decay"),
                                         position, new_level)
        V(s, d) == IF FlowingAt(s.w, offset(position, d))
                   THEN schedule_update(s, offset(position, d), s.w[offset(position, d)], 0, 3)
                   ELSE s
    IN  V(V(receding, "Up"), "Down")

\* the decay branch for level > 1 (fluid.rs:302-329)
decay(st, position, level) ==
    LET new_level == level - 1
        new_state_id == get_state_id_for_level(new_level)
        receding == start_water_receding(batch_push(st, position, new_state_id, "decay"),
                                         position, new_level)
        V(s, d) == IF FlowingAt(s.w, offset(position, d))
                   THEN schedule_update(s, offset(position, d), s.w[offset(position, d)], 0, 3)
                   ELSE s
    IN  V(V(receding, "Up"), "Down")

\* the removal branch for level 1 (fluid.rs:330-347)
vanish(st, position) ==
    LET N(s, d) == IF FlowingAt(s.w, offset(position, d))
                   THEN schedule_update(s, offset(position, d), s.w[offset(position, d)], 1, 2)
                   ELSE s
    IN  N(N(N(N(N(N(batch_push(st, position, 0, "vanish"),
            "Down"), "Up"), "North"), "South"), "West"), "East")

\* `current_state_id != update.fluid_state_id`: the update is stale
is_stale(current_state_id, update) == current_state_id # update.fluid_state_id

process_fluid_update(st, update) ==
    LET position == update.position
        current_state_id == st.w[position]
        level == get_water_level(current_state_id)
    IN  IF ~ReadOk(position) THEN Branch(st, "err")
        ELSE IF current_state_id = 0
        THEN IF adjacent_source_count(st.w, position) >= 2
             THEN Branch(schedule_update(batch_push(st, position, WATER_SOURCE_STATE_ID, "formation"),
                                         position, WATER_SOURCE_STATE_ID, 0, 2),
                         "source_formation")
             ELSE process_air_block_update(st, position)
        ELSE IF is_stale(current_state_id, update) THEN Branch(st, "stale")
        ELSE IF ~is_water(current_state_id) THEN Branch(st, "not_water")
        ELSE IF is_source_block(current_state_id)
        THEN Branch(try_flow_source_horizontally(try_flow_downward(st, position), position),
                    "source")
        ELSE IF ~has_source_connection(st.w, position)
        THEN IF level > 1 THEN Branch(decay(st, position, level), "decay")
             ELSE Branch(vanish(st, position), "vanish")
        ELSE Branch(waterfall(try_flow_horizontally(try_flow_downward(st, position),
                                                    position, level),
                              position, level),
                    "flow")

----------------------------------------------------------------------------
(* The engine's entry points as actions.                                   *)

\* the worlds a behaviour may start from: rows of state ids, y = 0, 1, 2
Terrain(r0, r1, r2) ==
    [p \in Slice |-> (CASE p[2] = 0 -> r0 [] p[2] = 1 -> r1 [] OTHER -> r2)[p[1] + 1]]

FloorRow == <<SolidId, SolidId, SolidId, SolidId>>
AirRow == <<0, 0, 0, 0>>

\* a flat solid floor under air
FlatWorld == Terrain(FloorRow, AirRow, AirRow)
\* a ledge two cells wide with a drop to the floor east of it, and a source
\* on the ledge
LedgeWorld == Terrain(FloorRow, <<SolidId, SolidId, 0, 0>>,
                      <<WATER_SOURCE_STATE_ID, 0, 0, 0>>)
\* a settled stream: a source and the water it has spread along the floor
StreamWorld == Terrain(FloorRow,
                       <<WATER_SOURCE_STATE_ID, WATER_LEVEL_7_STATE_ID,
                         WATER_LEVEL_6_STATE_ID, WATER_LEVEL_5_STATE_ID>>, AirRow)
\* two sources with a gap and one flowing cell between them
PoolWorld == Terrain(FloorRow,
                     <<WATER_SOURCE_STATE_ID, 0,
                       WATER_LEVEL_7_STATE_ID, WATER_SOURCE_STATE_ID>>, AirRow)

\* the remnant of a stream whose source is gone
PuddleWorld == Terrain(FloorRow,
                       <<0, WATER_LEVEL_2_STATE_ID, WATER_LEVEL_1_STATE_ID, 0>>, AirRow)

Terrains == {FlatWorld, LedgeWorld, StreamWorld, PoolWorld, PuddleWorld}

\* the positions external calls name: the row above the floor
CallPos == {p \in Loaded : p[2] = 1}

EmptyMap == [k \in {} |-> 0]
NoSnap == [active |-> FALSE, p0 |-> EmptyMap, w0 |-> EmptyMap]

\* the history of a step that is not an engine call on a position
Step(op) ==
    [op |-> op, position |-> <<>>, upd |-> <<>>, cur |-> -1,
     imm |-> <<>>, reqs |-> <<>>, br |-> "none", pushed |-> <<>>]

\* what an engine call on position leaves behind: the state id it could read
\* there when it began, and the history of its statements; upd is the
\* update a resolution was handed, in a one-element sequence
Effects(op, position, upd, st) ==
    [op |-> op, position |-> position, upd |-> upd,
     cur |-> IF ReadOk(position) THEN world[position] ELSE -1,
     imm |-> st.imm, reqs |-> st.reqs, br |-> st.br,
     pushed |-> SubSeq(st.b, Len(batch_updates) + 1, Len(st.b))]

Apply(op, position, upd, st) ==
    /\ world' = st.w
    /\ pending_updates' = st.p
    /\ batch_updates' = st.b
    /\ batch_kinds' = st.bk
    /\ last' = Effects(op, position, upd, st)

Now == St(world, pending_updates, batch_updates, batch_kinds)

\* nobody holds the Mutex
NoHolder == "none"
\* the thread that calls tick
TickThread == "tick"
\* the threads that run block and item handlers
HandlerThreads == {"h1", "h2"}
\* a handler thread that is running no handler
NoCall == [at |-> "out", op |-> "none", position |-> <<>>, state_id |-> 0, done |-> 0]
NoHandlers == [t \in HandlerThreads |-> NoCall]

\* mutant of lock_free: lock() returns although the Mutex is held
lock_free_always(holder) == TRUE

\* `world.fluid_manager.lock().await` returns when nobody holds the Mutex
lock_free(holder) == holder = NoHolder

\* a whole handler, from lock() to the drop of the guard, in one step
ExternalCall ==
    /\ pc = "idle"
    /\ lock_free(lock_holder)
    /\ calls < MaxCalls
    /\ calls' = calls + 1
    /\ snap' = NoSnap
    /\ resolved' = <<>>
    /\ UNCHANGED <<current_tick, pc, updates_to_process, lock_holder, handler>>

\* WaterBlock::on_neighbor_update (fluid_blocks.rs:74-103)
on_neighbor_update(st, block_pos) ==
    LET state_id == st.w[block_pos]
        below_pos == offset(block_pos, "Down")
        first == schedule_update(st, block_pos, state_id, 1, 1)
    IN  IF ~ReadOk(block_pos) THEN st
        ELSE IF ~is_water(state_id) THEN st
        ELSE IF ReadOk(below_pos) /\ Passable(st.w, below_pos)
        THEN schedule_update(first, block_pos, state_id, 0, 2)
        ELSE first

OnNeighborUpdate(block_pos) ==
    /\ ExternalCall
    /\ Apply("on_neighbor_update", block_pos, <<>>, on_neighbor_update(Now, block_pos))

add_fluid_source(st, position, is_water_flag) ==
    IF ~is_water_flag THEN st
    ELSE schedule_update(set_block_state(st, position, WATER_SOURCE_STATE_ID),
                         position, WATER_SOURCE_STATE_ID, 0, 3)

AddFluidSource(position, is_water_flag) ==
    /\ ExternalCall
    /\ Apply("add_fluid_source", position, <<>>,
             add_fluid_source(Now, position, is_water_flag))

\* one iteration of the neighbour loop of remove_fluid / handle_block_placed_near_water
schedule_neighbour(st, position, direction, source_priority, other_priority, by_neighbour) ==
    LET adjacent_pos == offset(position, direction)
        adjacent_state_id == st.w[adjacent_pos]
        priority == IF by_neighbour
                    THEN (IF is_source_block(adjacent_state_id) THEN 2 ELSE 1)
                    ELSE (IF source_priority THEN 2 ELSE 1)
    IN  IF ReadOk(adjacent_pos) /\ is_water(adjacent_state_id)
        THEN schedule_update(st, adjacent_pos, adjacent_state_id, 0, priority)
        ELSE st

\* mutant of remove_fluid: the neighbours are scheduled at priority 1 also
\* when the removed cell was a source
remove_fluid_flat(st, position) ==
    LET N(s, d) == schedule_neighbour(s, position, d, FALSE, FALSE, FALSE)
    IN  N(N(N(N(N(N(set_block_state(st, position, 0),
            "Down"), "Up"), "North"), "South"), "West"), "East")

remove_fluid(st, position) ==
    LET is_source == ReadOk(position) /\ is_source_block(st.w[position])
        N(s, d) == schedule_neighbour(s, position, d, is_source, FALSE, FALSE)
    IN  N(N(N(N(N(N(set_block_state(st, position, 0),
            "Down"), "Up"), "North"), "South"), "West"), "East")

RemoveFluid(position) ==
    /\ ExternalCall
    /\ Apply("remove_fluid", position, <<>>, remove_fluid(Now, position))

handle_block_placed_near_water(st, position) ==
    LET N(s, d) == schedule_neighbour(s, position, d, FALSE, FALSE, TRUE)
    IN  N(N(N(N(N(N(st, "Down"), "Up"), "North"), "South"), "West"), "East")

HandleBlockPlacedNearWater(position) ==
    /\ ExternalCall
    /\ Apply("handle_block_placed_near_water", position, <<>>,
             handle_block_placed_near_water(Now, position))

\* a direct call of the public FluidManager::schedule_update; any number of
\* them may be made between two ticks
ScheduleUpdate(position, fluid_state_id, delay, priority) ==
    /\ pc = "idle"
    /\ lock_free(lock_holder)
    /\ Apply("schedule_update", position, <<>>,
             schedule_update(Now, position, fluid_state_id, delay, priority))
    /\ snap' = NoSnap
    /\ resolved' = <<>>
    /\ UNCHANGED <<current_tick, pc, updates_to_process, calls, lock_holder, handler>>

----------------------------------------------------------------------------
(* tick (fluid.rs:192-236), in three steps: the gathering of the due       *)
(* updates, the resolution of one drained update, the flush of the batch.  *)

\* the orders in which HashMap::values() can yield n of the keys
IterationOrders(keys, n) ==
    {f \in [1..n -> keys] : \A i, j \in 1..n : i # j => f[i] # f[j]}

\* mutant of sort_by_priority: the gathered updates are left in iteration order
sort_skipped(updates) == updates

\* updates_to_process.sort_by(|a, b| b.priority.cmp(&a.priority)): stable
sort_by_priority(updates) ==
    LET n == Len(updates)
        Rank(i) == 1 + Cardinality({j \in 1..n : updates[j].priority > updates[i].priority})
                     + Cardinality({j \in 1..(i - 1) :
                                       updates[j].priority = updates[i].priority})
    IN  [r \in 1..n |-> updates[CHOOSE i \in 1..n : Rank(i) = r]]

\* mutant of is_due: an update counts as due one tick early
is_due_early(update, now) == update.tick_scheduled <= now + 1

\* `update.tick_scheduled <= self.current_tick`
is_due(update, now) == update.tick_scheduled <= now

\* mutant of gather_count: the loop breaks one push too late
gather_count_late(n_due) ==
    IF n_due < MAX_UPDATES_PER_TICK + 1 THEN n_due ELSE MAX_UPDATES_PER_TICK + 1

\* how many updates the gathering loop takes of n_due due ones
gather_count(n_due) == IF n_due < MAX_UPDATES_PER_TICK THEN n_due ELSE MAX_UPDATES_PER_TICK

\* the keys the loop over updates_to_process removes from pending_updates
removed_keys(updates) == {updates[i].position : i \in 1..Len(updates)}

\* "Apply all batched updates": the writes in order, the last one to a cell wins
RECURSIVE apply_batch(_, _)
apply_batch(w, batch) ==
    IF batch = <<>> THEN w
    ELSE apply_batch([w EXCEPT ![batch[1][1]] = batch[1][2]], Tail(batch))

\* mutant of TickReturn: the early return applies the batch buffer once more
TickReturnFlushing ==
    /\ snap' = NoSnap
    /\ resolved' = <<>>
    /\ last' = Step("tick_return")
    /\ world' = apply_batch(world, batch_updates)
    /\ UNCHANGED <<pending_updates, batch_updates, batch_kinds, pc,
                   updates_to_process, calls, lock_holder, handler>>

\* the early returns of tick (fluid.rs:195-197, 212-214)
TickReturn ==
    /\ snap' = NoSnap
    /\ resolved' = <<>>
    /\ last' = Step("tick_return")
    /\ UNCHANGED <<world, pending_updates, batch_updates, batch_kinds, pc,
                   updates_to_process, calls, lock_holder, handler>>

TickGather(now, due) ==
    \E order \in IterationOrders(due, gather_count(Cardinality(due))) :
        LET gathered == [i \in 1..Len(order) |-> pending_updates[order[i]]]
            sorted == sort_by_priority(gathered)
        IN  /\ updates_to_process' = sorted
            /\ pending_updates' = MapRemove(pending_updates, removed_keys(sorted))
            /\ batch_updates' = <<>>
            /\ batch_kinds' = <<>>
            /\ pc' = "process"
            /\ snap' = [active |-> TRUE, p0 |-> pending_updates, w0 |-> world]
            /\ resolved' = <<>>
            /\ last' = Step("tick_gather")
            /\ lock_holder' = TickThread
            /\ UNCHANGED <<world, calls, handler>>

\* a tick call, while the clock is below limit; its caller holds the Mutex
\* from the call to the return
TickWithin(limit) ==
    /\ pc = "idle"
    /\ lock_free(lock_holder)
    /\ current_tick < limit
    /\ current_tick' = (current_tick + 1) % TickModulus
    /\ LET now == (current_tick + 1) % TickModulus
           due == {k \in DOMAIN pending_updates : is_due(pending_updates[k], now)}
       IN  IF DOMAIN pending_updates = {} \/ due = {}
           THEN TickReturn
           ELSE TickGather(now, due)

Tick == TickWithin(MaxTick)

Resolve ==
    /\ pc = "process"
    /\ LET update == Head(updates_to_process)
       IN  /\ Apply("resolve", update.position, <<update>>,
                    process_fluid_update(Now, update))
           /\ resolved' = Append(resolved, update)
    /\ updates_to_process' = Tail(updates_to_process)
    /\ pc' = IF Tail(updates_to_process) = <<>> THEN "flush" ELSE "process"
    /\ UNCHANGED <<current_tick, calls, snap, lock_holder, handler>>

\* mutant of Flush: the buffer is cleared once it has been applied
FlushClearing ==
    /\ pc = "flush"
    /\ world' = apply_batch(world, batch_updates)
    /\ pc' = "idle"
    /\ batch_updates' = <<>>
    /\ batch_kinds' = <<>>
    /\ last' = Step("flush")
    /\ lock_holder' = NoHolder
    /\ UNCHANGED <<pending_updates, current_tick, updates_to_process,
                   calls, snap, resolved, handler>>

Flush ==
    /\ pc = "flush"
    /\ world' = apply_batch(world, batch_updates)
    /\ pc' = "idle"
    /\ last' = Step("flush")
    /\ lock_holder' = NoHolder
    /\ UNCHANGED <<pending_updates, current_tick, batch_updates, batch_kinds,
                   updates_to_process, calls, snap, resolved, handler>>

Init ==
    /\ world \in Terrains
    /\ pending_updates = EmptyMap
    /\ current_tick = 0
    /\ batch_updates = <<>>
    /\ pc = "idle"
    /\ updates_to_process = <<>>
    /\ calls = 0
    /\ lock_holder = NoHolder
    /\ handler = NoHandlers
    /\ snap = NoSnap
    /\ resolved = <<>>
    /\ batch_kinds = <<>>
    /\ last = Step("new")

Next ==
    \/ \E block_pos \in CallPos : OnNeighborUpdate(block_pos)
    \/ \E position \in CallPos, is_water_flag \in BOOLEAN :
           AddFluidSource(position, is_water_flag)
    \/ \E position \in CallPos : RemoveFluid(position)
    \/ \E position \in CallPos : HandleBlockPlacedNearWater(position)
    \/ Tick
    \/ Resolve
    \/ Flush

Spec == Init /\ [][Next]_vars

----------------------------------------------------------------------------
(* One source placed on a flat floor and left to spread: a channel of      *)
(* air, x = 0..ChannelEnd, over a solid floor, with nothing loaded around  *)
(* it; the source is placed at one of its ends and only tick is called.    *)

Channel == {<<x, y, 0>> : x \in 0..ChannelEnd, y \in 0..1}
ChannelWorld == [p \in Channel |-> IF p[2] = 0 THEN SolidId ELSE 0]
ChannelEnds == {<<0, 1, 0>>, <<ChannelEnd, 1, 0>>}

SpreadInit ==
    /\ world = ChannelWorld
    /\ pending_updates = EmptyMap
    /\ current_tick = 0
    /\ batch_updates = <<>>
    /\ pc = "idle"
    /\ updates_to_process = <<>>
    /\ calls = 0
    /\ lock_holder = NoHolder
    /\ handler = NoHandlers
    /\ snap = NoSnap
    /\ resolved = <<>>
    /\ batch_kinds = <<>>
    /\ last = Step("new")

PlaceSource ==
    /\ calls = 0
    /\ \E position \in ChannelEnds : AddFluidSource(position, TRUE)

SpreadTick == calls = 1 /\ TickWithin(SpreadMaxTick)

SpreadNext ==
    \/ PlaceSource
    \/ SpreadTick
    \/ Resolve
    \/ Flush

\* the process loop of a tick call takes the next gathered update: what every
\* Resolve step does to updates_to_process, and no other step does
TakeNext == pc = "process" /\ updates_to_process' = Tail(updates_to_process)

\* the source is placed, tick is invoked repeatedly, and every invocation
\* runs to its end: its process loop resolves every gathered update and the
\* batch is flushed
SpreadSpec ==
    /\ SpreadInit
    /\ [][SpreadNext]_vars
    /\ WF_vars(PlaceSource)
    /\ WF_vars(SpreadTick)
    /\ WF_updates_to_process(TakeNext)
    /\ WF_vars(Flush)

----------------------------------------------------------------------------
(* Sustained overload: a row of air over a solid floor and no water.  One  *)
(* request is scheduled for the cell Victim; from then on, before every    *)
(* tick, the callers schedule MAX_UPDATES_PER_TICK further cells, so that  *)
(* at every tick more updates are due than the cap.  tick is invoked as    *)
(* long as the request for Victim is pending; the scenario ends with the   *)
(* tick that drains it.  The callers pause during the FLUID_TICK_RATE      *)
(* ticks before the clock wraps, when a new request would be due at once.  *)

FieldEnd == FLUID_TICK_RATE * (MAX_UPDATES_PER_TICK + 1)
Field == {<<x, y, 0>> : x \in 0..FieldEnd, y \in 0..1}
FieldWorld == [p \in Field |-> IF p[2] = 0 THEN SolidId ELSE 0]
FieldRow == {p \in Field : p[2] = 1}
Victim == <<0, 1, 0>>
Flooders == FieldRow \ {Victim}

FloodInit ==
    /\ world = FieldWorld
    /\ pending_updates = EmptyMap
    /\ current_tick = 0
    /\ batch_updates = <<>>
    /\ pc = "idle"
    /\ updates_to_process = <<>>
    /\ calls = 0
    /\ lock_holder = NoHolder
    /\ handler = NoHandlers
    /\ snap = NoSnap
    /\ resolved = <<>>
    /\ batch_kinds = <<>>
    /\ last = Step("new")

\* the requests, other than Victim's, that are due FLUID_TICK_RATE ticks from now
Fresh == {k \in DOMAIN pending_updates \ {Victim} :
             pending_updates[k].tick_scheduled = ScheduledTick(0)}

ToppedUp == Cardinality(Fresh) >= MAX_UPDATES_PER_TICK

\* the due tick of a request made now lies beyond the wrap of the clock
DueTickWraps == ScheduledTick(0) < current_tick

\* the request that is to be starved
VictimSchedule ==
    /\ pending_updates = EmptyMap
    /\ current_tick = 0
    /\ ScheduleUpdate(Victim, 0, 0, 1)

\* one more cell is scheduled: the first of the row that has no request pending
FloodSchedule ==
    /\ Victim \in DOMAIN pending_updates
    /\ ~ToppedUp
    /\ ~DueTickWraps
    /\ \E position \in Flooders :
           /\ position \notin DOMAIN pending_updates
           /\ \A q \in Flooders : q[1] < position[1] => q \in DOMAIN pending_updates
           /\ ScheduleUpdate(position, 0, 0, 1)

FloodTick ==
    /\ Victim \in DOMAIN pending_updates
    /\ ToppedUp \/ DueTickWraps
    /\ TickWithin(TickModulus)

FloodNext ==
    \/ VictimSchedule
    \/ FloodSchedule
    \/ FloodTick
    \/ Resolve
    \/ Flush

\* tick keeps being invoked while Victim's request is pending and every
\* invocation runs to its end; the callers keep scheduling
FloodSpec ==
    /\ FloodInit
    /\ [][FloodNext]_vars
    /\ WF_vars(FloodSchedule)
    /\ WF_vars(FloodTick)
    /\ WF_updates_to_process(TakeNext)
    /\ WF_vars(Flush)

----------------------------------------------------------------------------
(* A settled chain Source, 7, 6, ..., 1 along the channel whose source is  *)
(* removed, at any tick, and left to recede.                               *)

ChainSource == <<0, 1, 0>>
ChainCell(d) == <<d, 1, 0>>
ChainWorld ==
    [p \in Channel |->
        IF p[2] = 0 THEN SolidId
        ELSE IF p[1] = 0 THEN WATER_SOURCE_STATE_ID
        ELSE IF p[1] <= 7 THEN get_state_id_for_level(8 - p[1])
        ELSE 0]

RecedeInit ==
    /\ world = ChainWorld
    /\ pending_updates = EmptyMap
    /\ current_tick = 0
    /\ batch_updates = <<>>
    /\ pc = "idle"
    /\ updates_to_process = <<>>
    /\ calls = 0
    /\ lock_holder = NoHolder
    /\ handler = NoHandlers
    /\ snap = NoSnap
    /\ resolved = <<>>
    /\ batch_kinds = <<>>
    /\ last = Step("new")

RemoveSource == calls = 0 /\ RemoveFluid(ChainSource)

RecedeTick == TickWithin(SpreadMaxTick)

RecedeNext ==
    \/ RemoveSource
    \/ RecedeTick
    \/ Resolve
    \/ Flush

RecedeSpec == RecedeInit /\ [][RecedeNext]_vars

----------------------------------------------------------------------------
(* The engine beside a region of the world that is unloaded while updates  *)
(* are pending: from then on every World read of its positions fails.      *)

\* the World stops holding the column x of the slice
UnloadColumn(x) ==
    /\ ExternalCall
    /\ world' = [p \in {q \in Loaded : q[1] # x} |-> world[p]]
    /\ last' = Step("unload")
    /\ UNCHANGED <<pending_updates, batch_updates, batch_kinds>>

EdgeNext ==
    \/ \E block_pos \in CallPos : OnNeighborUpdate(block_pos)
    \/ \E position \in CallPos : RemoveFluid(position)
    \/ \E x \in {p[1] : p \in Loaded} : UnloadColumn(x)
    \/ Tick
    \/ Resolve
    \/ Flush

EdgeSpec == Init /\ [][EdgeNext]_vars

----------------------------------------------------------------------------
(* schedule_update called once, with any observed state id, at any moment  *)
(* between two ticks of the receding chain: while updates are pending,     *)
(* with or without one for the position named, and while the batch buffer  *)
(* holds the writes of the last tick.  The scenario ends with the call.    *)

\* Air, the water ids, the ids next to them and two other blocks
ObservedIds ==
    {0, SolidId, MaxStateId} \cup (WATER_SOURCE_STATE_ID - 1)..(WATER_LEVEL_1_STATE_ID + 1)

\* the cell of the removed source, the cell next to it, the far end of the
\* channel and a position that is not loaded
ProbeCells == {ChainSource, ChainCell(1), ChainCell(ChannelEnd), ChainCell(ChannelEnd + 1)}

Probed == last.op = "schedule_update"

Probe ==
    /\ ~Probed
    /\ \E position \in ProbeCells, fluid_state_id \in ObservedIds,
          delay \in 0..MaxDelay, priority \in 1..3 :
           ScheduleUpdate(position, fluid_state_id, delay, priority)

ProbeTick == ~Probed /\ TickWithin(SpreadMaxTick)

ProbeRemove == ~Probed /\ RemoveSource

ProbeNext ==
    \/ ProbeRemove
    \/ Probe
    \/ ProbeTick
    \/ Resolve
    \/ Flush

ProbeSpec == RecedeInit /\ [][ProbeNext]_vars

----------------------------------------------------------------------------
(* The handlers as threads (fluid_blocks.rs:35-103, bucket.rs:128-150):    *)
(* what a handler does before it asks for the Mutex, the lock() call, the  *)
(* statements it makes on the engine under the guard, one step each, and   *)
(* the drop of the guard.  Two handler threads run beside the thread that  *)
(* calls tick.                                                             *)

HandlerOps == {"broken", "on_place", "on_neighbor_update", "use_on_block"}

\* how many statements a handler makes on the engine under the guard
Statements(op) == IF op \in {"on_neighbor_update", "use_on_block"} THEN 2 ELSE 1

\* one iteration of the neighbour loop of BucketItem::use_on_block
bucket_neighbour(st, target_pos, direction) ==
    LET adjacent_pos == offset(target_pos, direction)
        adjacent_state_id == st.w[adjacent_pos]
    IN  IF ReadOk(adjacent_pos) /\ is_water(adjacent_state_id)
        THEN schedule_update(st, adjacent_pos, adjacent_state_id, 0, 3)
        ELSE st

\* the statement a handler thread h makes next on the engine state st
handler_statement(st, h) ==
    LET below_pos == offset(h.position, "Down")
        N(s, d) == bucket_neighbour(s, h.position, d)
    IN  CASE h.op = "broken" -> remove_fluid(st, h.position)
          [] h.op = "on_place" -> add_fluid_source(st, h.position, TRUE)
          [] h.op = "on_neighbor_update" /\ h.done = 0 ->
                 IF is_water(h.state_id)
                 THEN schedule_update(st, h.position, h.state_id, 1, 1)
                 ELSE st
          [] h.op = "on_neighbor_update" /\ h.done = 1 ->
                 IF is_water(h.state_id) /\ ReadOk(below_pos) /\ Passable(st.w, below_pos)
                 THEN schedule_update(st, h.position, h.state_id, 0, 2)
                 ELSE st
          [] h.op = "use_on_block" /\ h.done = 0 ->
                 add_fluid_source(st, h.position, TRUE)
          [] OTHER ->
                 N(N(N(N(N(N(st, "Down"), "Up"), "North"), "South"), "West"), "East")

\* a handler is called and runs up to its lock() call: on_neighbor_update
\* reads the state id of its block, the bucket writes the block it places
HandlerBegin(t, op, position) ==
    /\ handler[t].at = "out"
    /\ calls < MaxCalls
    /\ calls' = calls + 1
    /\ ReadOk(position)
    /\ handler' = [handler EXCEPT ![t] =
                       [at |-> "called", op |-> op, position |-> position,
                        state_id |-> IF op = "on_neighbor_update"
                                     THEN world[position] ELSE 0,
                        done |-> 0]]
    /\ world' = IF op = "use_on_block"
                THEN [world EXCEPT ![position] = WATER_SOURCE_STATE_ID]
                ELSE world
    /\ last' = Step("handler_called")
    /\ UNCHANGED <<pending_updates, current_tick, batch_updates, pc,
                   updates_to_process, lock_holder, batch_kinds, snap, resolved>>

\* `let mut fluid_manager = world.fluid_manager.lock().await;`
HandlerLock(t) ==
    /\ handler[t].at = "called"
    /\ lock_free(lock_holder)
    /\ lock_holder' = t
    /\ handler' = [handler EXCEPT ![t].at = "locked"]
    /\ UNCHANGED <<world, pending_updates, current_tick, batch_updates, pc,
                   updates_to_process, calls, batch_kinds, snap, resolved, last>>

\* one statement on the engine, through the guard
HandlerStatement(t) ==
    /\ handler[t].at = "locked"
    /\ handler[t].done < Statements(handler[t].op)
    /\ Apply(handler[t].op, handler[t].position, <<>>,
             handler_statement(Now, handler[t]))
    /\ handler' = [handler EXCEPT ![t].done = @ + 1]
    /\ snap' = NoSnap
    /\ resolved' = <<>>
    /\ UNCHANGED <<current_tick, pc, updates_to_process, calls, lock_holder>>

\* the guard goes out of scope at the end of the handler
HandlerUnlock(t) ==
    /\ handler[t].at = "locked"
    /\ handler[t].done = Statements(handler[t].op)
    /\ lock_holder' = NoHolder
    /\ handler' = [handler EXCEPT ![t] = NoCall]
    /\ UNCHANGED <<world, pending_updates, current_tick, batch_updates, pc,
                   updates_to_process, calls, batch_kinds, snap, resolved, last>>

LockNext ==
    \/ \E t \in HandlerThreads, op \in HandlerOps, position \in CallPos :
           HandlerBegin(t, op, position)
    \/ \E t \in HandlerThreads : HandlerLock(t)
    \/ \E t \in HandlerThreads : HandlerStatement(t)
    \/ \E t \in HandlerThreads : HandlerUnlock(t)
    \/ Tick
    \/ Resolve
    \/ Flush

LockSpec == Init /\ [][LockNext]_vars

----------------------------------------------------------------------------
(* The level functions applied to a state id and a level.                  *)

LevelInit ==
    /\ world = FlatWorld
    /\ pending_updates = EmptyMap
    /\ current_tick = 0
    /\ batch_updates = <<>>
    /\ pc = "idle"
    /\ updates_to_process = <<>>
    /\ calls = 0
    /\ lock_holder = NoHolder
    /\ handler = NoHandlers
    /\ snap = NoSnap
    /\ resolved = <<>>
    /\ batch_kinds = <<>>
    /\ last \in [op : {"level_args"}, state_id : 0..MaxStateId,
                 level : (-MaxLevelArg)..MaxLevelArg]

ApplyLevels ==
    /\ last.op = "level_args"
    /\ last' = [op |-> "levels", state_id |-> last.state_id, level |-> last.level,
                is_water |-> is_water(last.state_id),
                water_level |-> get_water_level(last.state_id),
                state_id_for_level |-> get_state_id_for_level(last.level),
                level_again |-> get_water_level(get_state_id_for_level(last.level)),
                state_id_again |-> get_state_id_for_level(get_water_level(last.state_id))]
    /\ UNCHANGED <<world, pending_updates, current_tick, batch_updates, pc,
                   updates_to_process, calls, lock_holder, handler,
                   batch_kinds, snap, resolved>>

LevelSpec == LevelInit /\ [][ApplyLevels]_vars

----------------------------------------------------------------------------
(* has_source_connection applied to a position of a small world: every     *)
(* filling of a grid three cells wide and two high with air, stone, a      *)
(* source and flowing water of three levels.                               *)

SearchGrid == {<<x, y, 0>> : x \in 0..2, y \in 0..1}
SearchIds == {0, SolidId, WATER_SOURCE_STATE_ID, WATER_LEVEL_7_STATE_ID,
              WATER_LEVEL_6_STATE_ID, WATER_LEVEL_5_STATE_ID}

SearchInit ==
    /\ world \in [SearchGrid -> SearchIds]
    /\ pending_updates = EmptyMap
    /\ current_tick = 0
    /\ batch_updates = <<>>
    /\ pc = "idle"
    /\ updates_to_process = <<>>
    /\ calls = 0
    /\ lock_holder = NoHolder
    /\ handler = NoHandlers
    /\ snap = NoSnap
    /\ resolved = <<>>
    /\ batch_kinds = <<>>
    /\ last \in [op : {"search_args"}, position : SearchGrid]

\* the search ran: the call did not return before line 564
Searched(w, position) ==
    /\ ~is_source_block(w[position])
    /\ \A i \in 1..6 : LET a == offset(position, AllDirections[i])
                       IN  ~(ReadOk(a) /\ is_source_block(w[a]))
    /\ get_water_level(w[position]) # 7

ApplySearch ==
    /\ last.op = "search_args"
    /\ last' = [op |-> "search", position |-> last.position,
                found |-> has_source_connection(world, last.position),
                searched |-> Searched(world, last.position),
                pushes |-> IF Searched(world, last.position)
                           THEN source_search(world, last.position).pushes
                           ELSE <<>>]
    /\ UNCHANGED <<world, pending_updates, current_tick, batch_updates, pc,
                   updates_to_process, calls, lock_holder, handler,
                   batch_kinds, snap, resolved>>

SearchSpec == SearchInit /\ [][ApplySearch]_vars

----------------------------------------------------------------------------
(* find_path_downward applied to a start cell of a small world: a layer of *)
(* three by three cells over a second layer, every cell air or stone.      *)

PathLayers == {<<x, y, z>> : x \in 0..2, y \in 0..1, z \in 0..2}
\* a corner, the middle of a side and the centre of the upper layer
PathStarts == {<<0, 1, 0>>, <<1, 1, 0>>, <<1, 1, 1>>}

PathInit ==
    /\ world \in [PathLayers -> {0, SolidId}]
    /\ pending_updates = EmptyMap
    /\ current_tick = 0
    /\ batch_updates = <<>>
    /\ pc = "idle"
    /\ updates_to_process = <<>>
    /\ calls = 0
    /\ lock_holder = NoHolder
    /\ handler = NoHandlers
    /\ snap = NoSnap
    /\ resolved = <<>>
    /\ batch_kinds = <<>>
    /\ last \in [op : {"path_args"}, start_pos : PathStarts]

ApplyPath ==
    /\ last.op = "path_args"
    /\ last' = [op |-> "path", start_pos |-> last.start_pos,
                distance |-> find_path_downward(world, last.start_pos)]
    /\ UNCHANGED <<world, pending_updates, current_tick, batch_updates, pc,
                   updates_to_process, calls, lock_holder, handler,
                   batch_kinds, snap, resolved>>

PathSpec == PathInit /\ [][ApplyPath]_vars

----------------------------------------------------------------------------
(* A source placed in the middle of a small basin and resolved once: the   *)
(* basin is a layer of three by three cells over a second layer, nothing   *)
(* loaded around it; every cell is air or stone, the cell under the source *)
(* may also hold water.  The source is placed at <<1, 1, 1>>.              *)

BasinInit ==
    /\ \E terrain \in [PathLayers \ {<<1, 1, 1>>, <<1, 0, 1>>} -> {0, SolidId}],
          below_id \in {0, SolidId, WATER_SOURCE_STATE_ID, WATER_LEVEL_6_STATE_ID} :
           world = [p \in PathLayers |->
                       IF p = <<1, 1, 1>> THEN 0
                       ELSE IF p = <<1, 0, 1>> THEN below_id
                       ELSE terrain[p]]
    /\ pending_updates = EmptyMap
    /\ current_tick = 0
    /\ batch_updates = <<>>
    /\ pc = "idle"
    /\ updates_to_process = <<>>
    /\ calls = 0
    /\ lock_holder = NoHolder
    /\ handler = NoHandlers
    /\ snap = NoSnap
    /\ resolved = <<>>
    /\ batch_kinds = <<>>
    /\ last = Step("new")

BasinNext ==
    \/ calls = 0 /\ AddFluidSource(<<1, 1, 1>>, TRUE)
    \/ calls = 1 /\ TickWithin(FLUID_TICK_RATE)
    \/ Resolve
    \/ Flush

BasinSpec == BasinInit /\ [][BasinNext]_vars

----------------------------------------------------------------------------
(* Sources placed and cells emptied anywhere in the slice, also in the     *)
(* upper row over air or over water, between the ticks.                    *)

DropSpec ==
    Init /\ [][\/ \E position \in Loaded : AddFluidSource(position, TRUE)
               \/ \E position \in Loaded : RemoveFluid(position)
               \/ Tick
               \/ Resolve
               \/ Flush]_vars

----------------------------------------------------------------------------
(* The engine when its clock is about to wrap: tick has been invoked until *)
(* the u32 counter, here of TickModulus values, is two tick rates short of *)
(* its largest value, nothing is pending, and the external calls and the   *)
(* ticks go on across the wrap for two tick rates more.  The sum           *)
(* `self.current_tick + actual_delay` is taken as the release build takes  *)
(* it, modulo the width; the debug build panics on the overflow instead.   *)

WrapInit ==
    /\ world \in Terrains
    /\ pending_updates = EmptyMap
    /\ current_tick = TickModulus - 2 * FLUID_TICK_RATE
    /\ batch_updates = <<>>
    /\ pc = "idle"
    /\ updates_to_process = <<>>
    /\ calls = 0
    /\ lock_holder = NoHolder
    /\ handler = NoHandlers
    /\ snap = NoSnap
    /\ resolved = <<>>
    /\ batch_kinds = <<>>
    /\ last = Step("new")

WrapTick ==
    /\ \/ current_tick >= TickModulus - 2 * FLUID_TICK_RATE
       \/ current_tick < 2 * FLUID_TICK_RATE
    /\ TickWithin(TickModulus)

WrapSpec ==
    WrapInit /\ [][\/ \E position \in CallPos : AddFluidSource(position, TRUE)
                   \/ WrapTick
                   \/ Resolve
                   \/ Flush]_vars

----------------------------------------------------------------------------
(* One source placed on air terrain and left to itself, on the flat floor  *)
(* or on the rim of a well two cells wide and two deep; the source on the  *)
(* flat floor may be removed again at any moment.  The clock wraps, so the *)
(* engine is ticked for ever.                                              *)

WellWorld == Terrain(<<SolidId, 0, 0, SolidId>>, <<SolidId, 0, 0, SolidId>>, AirRow)

LoneInit ==
    /\ world \in {FlatWorld, WellWorld}
    /\ pending_updates = EmptyMap
    /\ current_tick = 0
    /\ batch_updates = <<>>
    /\ pc = "idle"
    /\ updates_to_process = <<>>
    /\ calls = 0
    /\ lock_holder = NoHolder
    /\ handler = NoHandlers
    /\ snap = NoSnap
    /\ resolved = <<>>
    /\ batch_kinds = <<>>
    /\ last = Step("new")

LonePlace ==
    /\ calls = 0
    /\ AddFluidSource(IF world = FlatWorld THEN <<1, 1, 0>> ELSE <<0, 2, 0>>, TRUE)

LoneRemove ==
    /\ calls = 1
    /\ is_source_block(world[<<1, 1, 0>>])
    /\ RemoveFluid(<<1, 1, 0>>)

LoneTick == calls >= 1 /\ TickWithin(TickModulus)

LoneSpec ==
    /\ LoneInit
    /\ [][LonePlace \/ LoneRemove \/ LoneTick \/ Resolve \/ Flush]_vars
    /\ WF_vars(LoneTick)
    /\ WF_updates_to_process(TakeNext)
    /\ WF_vars(Flush)

----------------------------------------------------------------------------
(* The engine beside a player who empties powder snow buckets: that block  *)
(* is written to the World without the fluid manager's lock, so the write  *)
(* may fall between any two steps of a running tick pass.                  *)

\* BucketItem::use_on_block with a powder snow bucket (bucket.rs:105-130):
\* the target must be air or replaceable, then the block is written
UsePowderSnowBucket(position) ==
    /\ calls < MaxCalls
    /\ ReadOk(position)
    /\ Passable(world, position)
    /\ calls' = calls + 1
    /\ world' = [world EXCEPT ![position] = SolidId]
    /\ last' = [Step("use_on_block") EXCEPT !.position = position]
    /\ UNCHANGED <<pending_updates, current_tick, batch_updates, batch_kinds, pc,
                   updates_to_process, lock_holder, handler, snap, resolved>>

BucketSpec ==
    Init /\ [][\/ \E position \in CallPos : AddFluidSource(position, TRUE)
               \/ \E position \in CallPos : UsePowderSnowBucket(position)
               \/ Tick
               \/ Resolve
               \/ Flush]_vars

----------------------------------------------------------------------------
(* Properties.                                                             *)

\* the updates the running (or just returned) tick drained, in sorted order
Drained == resolved \o updates_to_process
DrainedKeys == {Drained[i].position : i \in 1..Len(Drained)}
\* the entries that were due when the running tick gathered
Due0 == {k \in DOMAIN snap.p0 : snap.p0[k].tick_scheduled <= current_tick}

\* C1: the pending set holds at most one update per position, and the entry
\* stored under a position key carries that position in its position field.
C1_OnePendingUpdatePerPosition ==
    /\ \A k \in DOMAIN pending_updates : pending_updates[k].position = k
    /\ \A k1, k2 \in DOMAIN pending_updates :
           pending_updates[k1].position = pending_updates[k2].position => k1 = k2

\* a call has scheduled a position that already had a pending entry, and
\* replaced that entry
C1_Witness ==
    \E i \in DOMAIN last.reqs :
        /\ last.reqs[i].before # <<>>
        /\ last.reqs[i].after # last.reqs[i].before
        /\ last.reqs[i].position \in DOMAIN pending_updates

\* the entry a request asks for: due at now + 5 + delay
RequestedEntry(r) ==
    [position |-> r.position, fluid_state_id |-> r.fluid_state_id,
     tick_scheduled |-> (current_tick + 5 + r.delay) % TickModulus,
     priority |-> r.priority]

\* the request is due strictly earlier than the entry e, or at the same tick
\* with a strictly higher priority
Supersedes(r, e) ==
    \/ RequestedEntry(r).tick_scheduled < e.tick_scheduled
    \/ /\ RequestedEntry(r).tick_scheduled = e.tick_scheduled
       /\ r.priority > e.priority

\* C2: a schedule request for a position that has a pending entry replaces
\* it only if it is due strictly earlier, or due at the same tick with a
\* strictly higher priority; otherwise the existing entry is kept unchanged.
C2_SupersessionRule ==
    \A i \in DOMAIN last.reqs :
        LET r == last.reqs[i]
        IN  (r.before # <<>> /\ (r.fluid_state_id = 0 \/ r.fluid_state_id \in WaterIds))
            => r.after = IF Supersedes(r, r.before[1])
                         THEN <<RequestedEntry(r)>>
                         ELSE r.before

\* a request with the due tick and the priority of the pending entry, but
\* another observed state, was made and the first entry was kept
C2_Witness ==
    \E i \in DOMAIN last.reqs :
        LET r == last.reqs[i]
        IN  /\ r.before # <<>>
            /\ RequestedEntry(r).tick_scheduled = r.before[1].tick_scheduled
            /\ r.priority = r.before[1].priority
            /\ r.fluid_state_id # r.before[1].fluid_state_id
            /\ r.after = r.before

\* C3: when more updates are due than the cap, the tick drains exactly cap
\* of them, resolves those, and leaves the other due entries pending and
\* unchanged.
C3_CapEnforcement ==
    (snap.active /\ Cardinality(Due0) > MAX_UPDATES_PER_TICK) =>
        /\ Len(Drained) = MAX_UPDATES_PER_TICK
        /\ Cardinality(DrainedKeys) = MAX_UPDATES_PER_TICK
        /\ DrainedKeys \subseteq Due0
        /\ \A i \in 1..Len(Drained) : Drained[i] = snap.p0[Drained[i].position]
        /\ last.op = "tick_gather" =>
               DOMAIN pending_updates = DOMAIN snap.p0 \ DrainedKeys
        /\ \A k \in Due0 \ DrainedKeys :
               k \in DOMAIN pending_updates /\ pending_updates[k] = snap.p0[k]
        /\ pc = "idle" => Len(resolved) = MAX_UPDATES_PER_TICK

\* a tick that found more due updates than the cap has returned
C3_Witness ==
    /\ snap.active
    /\ Cardinality(Due0) > MAX_UPDATES_PER_TICK
    /\ pc = "idle"
    /\ last.op = "flush"

\* C4: within a tick no update is resolved after one of strictly lower priority.
C4_DescendingPriority ==
    \A i, j \in 1..Len(resolved) :
        i < j => resolved[i].priority >= resolved[j].priority

\* a tick has resolved two updates of different priorities
C4_Witness ==
    \E i, j \in 1..Len(resolved) : i < j /\ resolved[i].priority > resolved[j].priority

\* C5: every update the tick drains has due_tick <= the clock after the
\* tick's increment, and an entry that is due later is not drained: its
\* position keeps a pending entry, the same one when the gathering is done.
C5_NotBeforeDueTick ==
    snap.active =>
        /\ \A i \in 1..Len(Drained) : Drained[i].tick_scheduled <= current_tick
        /\ \A k \in DOMAIN snap.p0 :
               snap.p0[k].tick_scheduled > current_tick =>
                   /\ k \in DOMAIN pending_updates
                   /\ k \notin DrainedKeys
                   /\ last.op = "tick_gather" => pending_updates[k] = snap.p0[k]

\* a tick has resolved an update while another entry was not yet due
C5_Witness ==
    /\ snap.active
    /\ resolved # <<>>
    /\ \E k \in DOMAIN snap.p0 : snap.p0[k].tick_scheduled > current_tick

\* C6, as claimed: whenever no tick call is in progress, batch_updates
\* contains no entries.
C6_EmptyBetweenTicks == pc = "idle" => batch_updates = <<>>

\* C6, amended: batch_updates is empty at construction and is cleared when a
\* tick has gathered its due updates, before it resolves any; the flush
\* applies the buffer and does not clear it, and external calls and ticks
\* that return early leave it as it is, so that between ticks it holds the
\* writes of the last tick that drained updates.
C6_ClearedWhenDrainingOnly ==
    /\ batch_updates = <<>>
    /\ [][/\ (pc = "idle" /\ pc' = "idle") => batch_updates' = batch_updates
          /\ (pc = "idle" /\ pc' = "process") => batch_updates' = <<>>
          /\ pc = "flush" => /\ batch_updates' = batch_updates
                             /\ world' = apply_batch(world, batch_updates)]_vars

\* a tick that flushed writes has returned and the buffer still holds them
C6_Witness == pc = "idle" /\ last.op = "flush" /\ batch_updates # <<>>

\* C7: while a tick resolves its due updates, only the waterfall writes of
\* the Flowing branch go directly to the World; every other branch, the
\* Air-cell branches among them, writes through the batch buffer.
C7_OnlyWaterfallBypassesBatch ==
    (last.op = "resolve" /\ pc = "process" /\ last.br # "flow") => last.imm = <<>>

\* C8: resolving an update whose observed state differs from the state of
\* its position changes no world cell, adds nothing to the batch buffer and
\* schedules nothing, whatever the two states are.
C8_StaleIsNoOp ==
    (last.op = "resolve" /\ last.cur # -1 /\ last.cur # last.upd[1].fluid_state_id) =>
        /\ last.imm = <<>>
        /\ last.pushed = <<>>
        /\ last.reqs = <<>>

\* a write of new_id over old_id leaves a cell of better water worse
Downgrades(old_id, new_id) ==
    /\ old_id \in WaterIds
    /\ get_water_level(new_id) < get_water_level(old_id)

SpreadKinds == {"down", "side", "source_side"}

\* C9: a Source at the start of a tick is a Source after its flush, and no
\* spread write (batched, also when two go to one position, or the waterfall
\* write) puts Flowing(m) on a cell that holds better water.
C9_SpreadNeverDowngrades ==
    /\ (last.op = "flush" /\ snap.active) =>
           \A p \in Loaded : snap.w0[p] = WATER_SOURCE_STATE_ID
                                 => world[p] = WATER_SOURCE_STATE_ID
    /\ pc = "flush" =>
           \A i \in 1..Len(batch_updates) :
               batch_kinds[i] \in SpreadKinds =>
                   ~Downgrades(apply_batch(world, SubSeq(batch_updates, 1, i - 1))
                                   [batch_updates[i][1]],
                               batch_updates[i][2])
    /\ (last.op = "resolve" /\ last.br = "flow") =>
           \A i \in 1..Len(last.imm) : ~Downgrades(last.imm[i][3], last.imm[i][2])

\* C10: resolving a non-stale update of a Flowing(L) cell without source
\* connection pushes exactly one write for the cell, Flowing(L-1) if L > 1
\* and Air if L = 1, and writes nothing directly; no other resolution takes
\* the decay branch, so the branch never writes a Source cell.
C10_DecayFloor ==
    [][pc = "process" =>
          LET update == Head(updates_to_process)
              position == update.position
              decays == /\ ReadOk(position)
                        /\ FlowingAt(world, position)
                        /\ world[position] = update.fluid_state_id
                        /\ ~has_source_connection(world, position)
              L == get_water_level(world[position])
              written == batch_updates'[Len(batch_updates')]
          IN  /\ decays <=> last'.br \in {"decay", "vanish"}
              /\ decays =>
                    /\ Len(batch_updates') = Len(batch_updates) + 1
                    /\ SubSeq(batch_updates', 1, Len(batch_updates)) = batch_updates
                    /\ written[1] = position
                    /\ L > 1 => /\ written[2] \in WaterIds
                                /\ get_water_level(written[2]) = L - 1
                    /\ L = 1 => written[2] = 0
                    /\ world' = world]_vars

\* a Flowing(1) cell without source connection has been resolved
C10_Witness ==
    /\ last.op = "resolve"
    /\ last.br = "vanish"
    /\ last.cur = WATER_LEVEL_1_STATE_ID
    /\ last.pushed = << <<last.position, 0>> >>

\* C11: an Air cell whose update is resolved with at least 2 horizontally
\* adjacent Sources has a pending update when the resolution ends and is a
\* Source after the flush of that tick; resolved with fewer than 2, it is
\* not written a Source.
C11_SourceFormation ==
    /\ (last.op = "resolve" /\ last.br = "source_formation") =>
           last.position \in DOMAIN pending_updates
    /\ last.op = "flush" =>
           \A i \in 1..Len(batch_updates) :
               batch_kinds[i] = "formation" =>
                   world[batch_updates[i][1]] = WATER_SOURCE_STATE_ID
    /\ (/\ last.op = "resolve"
        /\ last.cur = 0
        /\ adjacent_source_count(world, last.position) < 2) =>
           /\ \A i \in 1..Len(last.imm) : last.imm[i][2] # WATER_SOURCE_STATE_ID
           /\ \A i \in 1..Len(last.pushed) : last.pushed[i][2] # WATER_SOURCE_STATE_ID

\* the cell of the channel at distance d from the placed source
Placed == CHOOSE p \in ChannelEnds : world[p] = WATER_SOURCE_STATE_ID
AtDistance(d) == <<IF Placed[1] = 0 THEN d ELSE ChannelEnd - d, 1, 0>>

SpreadSettled ==
    /\ calls = 1
    /\ \A d \in 1..7 : world[AtDistance(d)] = get_state_id_for_level(8 - d)

\* C12: from one Source placed on a flat floor of Air, with only tick called,
\* eventually every cell at distance d in 1..7 along the line is
\* Flowing(8 - d), and no cell at distance 8 or more is ever water.
C12_SpreadBound ==
    /\ [](calls = 1 => \A d \in 8..ChannelEnd : ~is_water(world[AtDistance(d)]))
    /\ <>SpreadSettled

\* the water has reached level 1 at distance 7 and stopped there
C12_Witness ==
    /\ SpreadSettled
    /\ pc = "idle"
    /\ pending_updates = EmptyMap
    /\ world[AtDistance(8)] = 0

\* the cells of the chain that have a pending update
PendingChain == {d \in 1..7 : ChainCell(d) \in DOMAIN pending_updates}

C13_FarthestDueFirstWhenPending ==
    (calls = 1 /\ 7 \in PendingChain /\ world[ChainCell(7)] = WATER_LEVEL_1_STATE_ID) =>
        \A d \in PendingChain \ {7} :
            pending_updates[ChainCell(7)].tick_scheduled
                < pending_updates[ChainCell(d)].tick_scheduled

EightWaterIds == {WATER_SOURCE_STATE_ID} \cup
    {WATER_LEVEL_1_STATE_ID, WATER_LEVEL_2_STATE_ID, WATER_LEVEL_3_STATE_ID,
     WATER_LEVEL_4_STATE_ID, WATER_LEVEL_5_STATE_ID, WATER_LEVEL_6_STATE_ID,
     WATER_LEVEL_7_STATE_ID}

\* C14: the level of the state id of a level in 1..8 is that level, the state
\* id of the level of a water id is that id, every other id has level 0,
\* every level outside 1..8 has state id 0, and is_water holds exactly of the
\* ids whose level is in 1..8.
C14_LevelBijection ==
    last.op = "levels" =>
        /\ last.level \in 1..8 => last.level_again = last.level
        /\ last.level \notin 1..8 => last.state_id_for_level = 0
        /\ last.state_id \in EightWaterIds => last.state_id_again = last.state_id
        /\ last.state_id \notin EightWaterIds => last.water_level = 0
        /\ last.is_water <=> last.water_level \in 1..8
        /\ last.is_water <=> last.state_id \in EightWaterIds

\* the functions have been applied to the Flowing(7) id and to level 7
C14_Witness ==
    /\ last.op = "levels"
    /\ last.state_id = WATER_LEVEL_7_STATE_ID
    /\ last.water_level = 7
    /\ last.level = 7
    /\ last.state_id_for_level = WATER_LEVEL_7_STATE_ID

\* C15: when add_fluid_source with is_water = true returns, the cell is a
\* Source and the update pending for it observes the Source state, has
\* priority 3 and is due at most 5 ticks later, whatever was pending before.
C15_SourceScheduledOnTop ==
    (last.op = "add_fluid_source" /\ last.imm # <<>>) =>
        /\ world[last.position] = WATER_SOURCE_STATE_ID
        /\ last.position \in DOMAIN pending_updates
        /\ pending_updates[last.position].fluid_state_id = WATER_SOURCE_STATE_ID
        /\ pending_updates[last.position].priority = 3
        /\ pending_updates[last.position].tick_scheduled <= current_tick + FLUID_TICK_RATE

\* the neighbours of position that hold water, in the order of the six directions
WaterNeighbours(w, position) ==
    LET IsWater(d) == offset(position, d) \in DOMAIN w /\ w[offset(position, d)] \in EightWaterIds
        ds == SelectSeq(AllDirections, IsWater)
    IN  [i \in 1..Len(ds) |-> offset(position, ds[i])]

\* C16: remove_fluid(pos) leaves pos Air and every other cell as it was, and
\* applies one schedule request per water neighbour, and none for any other
\* position, with the neighbour's state, delay 0 and priority 2 if the removed
\* cell was a Source and 1 otherwise.
C16_RemoveFluidEffect ==
    [][last'.op = "remove_fluid" =>
          LET pos == last'.position
              ns == WaterNeighbours(world, pos)
              priority == IF world[pos] = WATER_SOURCE_STATE_ID THEN 2 ELSE 1
          IN  /\ world' = [world EXCEPT ![pos] = 0]
              /\ Len(last'.reqs) = Len(ns)
              /\ \A i \in 1..Len(ns) :
                     /\ last'.reqs[i].position = ns[i]
                     /\ last'.reqs[i].fluid_state_id = world[ns[i]]
                     /\ last'.reqs[i].delay = 0
                     /\ last'.reqs[i].priority = priority
              /\ \A p \in DOMAIN pending_updates' :
                     p \in DOMAIN pending_updates \/ p \in SeqToSet(ns)
              /\ \A p \in DOMAIN pending_updates :
                     /\ p \in DOMAIN pending_updates'
                     /\ p \notin SeqToSet(ns) => pending_updates'[p] = pending_updates[p]
              /\ batch_updates' = batch_updates]_vars

\* a Source with a water neighbour has been removed, the neighbour is pending
\* at priority 2
C16_Witness ==
    /\ last.op = "remove_fluid"
    /\ last.cur = WATER_SOURCE_STATE_ID
    /\ world[last.position] = 0
    /\ Len(last.reqs) >= 1
    /\ last.reqs[1].position \in DOMAIN pending_updates
    /\ pending_updates[last.reqs[1].position].priority = 2

AirBranches == {"source_formation", "air_source", "air_above", "air_beside_source",
                "air_inflow", "air_none"}

\* a World read failed in the last resolution: that of the update's own
\* position, or that of a horizontal neighbour, all four of which the Air
\* branches and a source-connection search that finds no source read
FailedRead ==
    \/ last.cur = -1
    \/ /\ last.br \in AirBranches \cup {"decay", "vanish"}
       /\ \E i \in 1..4 : offset(last.position, HorizontalDirections[i]) \notin Loaded

\* the positions written, directly or through the batch, by the last call
WrittenByLast ==
    {last.imm[i][1] : i \in 1..Len(last.imm)}
        \cup {last.pushed[i][1] : i \in 1..Len(last.pushed)}

\* C17, as claimed: if a World read fails while an update is resolved, the
\* cell being resolved is not written in that tick.
C17_FailedReadKeepsCell ==
    (last.op = "resolve" /\ FailedRead) => last.position \notin WrittenByLast

\* C17, amended: if the read of the update's own position fails, the
\* resolution writes, batches and schedules nothing; a failed read of a
\* neighbour only drops that neighbour from the check being made, and the
\* cell resolved may still be written; no position whose read fails is
\* written or scheduled.
C17_FailedReadSkipsPosition ==
    last.op = "resolve" =>
        /\ last.cur = -1 =>
               /\ last.br = "err"
               /\ last.imm = <<>>
               /\ last.pushed = <<>>
               /\ last.reqs = <<>>
        /\ WrittenByLast \subseteq Loaded
        /\ \A i \in 1..Len(last.reqs) : last.reqs[i].position \in Loaded

\* an update whose position was unloaded while it was pending has been
\* resolved
C17_Witness ==
    /\ last.op = "resolve"
    /\ last.cur = -1
    /\ last.upd[1].position \notin Loaded

\* C18: an update that is pending and is not superseded is eventually
\* drained and handed to the resolver, provided tick keeps being invoked;
\* the excess over the cap is drained in later ticks.
TickKeepsDraining == []<>(pc = "process")

C18_EventuallyDrained ==
    \A k \in FieldRow :
        TickKeepsDraining =>
            ((k \in DOMAIN pending_updates) ~> (k \notin DOMAIN pending_updates))

\* the handler threads that are between lock() and the drop of the guard
InGuard == {t \in HandlerThreads : handler[t].at = "locked"}

\* a thread in its guarded region holds the Mutex, and so does the tick
\* thread during a tick pass
HoldersAgree ==
    /\ \A t \in InGuard : lock_holder = t
    /\ pc # "idle" => lock_holder = TickThread

\* a step that changes the pending set or the batch buffer is a step of the
\* thread that holds the Mutex: a step of the tick pass, or a statement of
\* the handler in its guarded region; no other thread moves the engine
\* between two statements of a guarded region or inside a tick pass
OnlyHolderMoves ==
    (pending_updates' # pending_updates \/ batch_updates' # batch_updates) =>
        \/ /\ lock_holder' = TickThread
           /\ handler' = handler
           /\ InGuard = {}
        \/ \E t \in InGuard :
               /\ lock_holder = t
               /\ pc = "idle"
               /\ handler'[t].done = handler[t].done + 1
               /\ \A u \in HandlerThreads \ {t} : handler'[u] = handler[u]

\* C19: every call of a handler or of the bucket item into the engine is
\* made while holding the fluid_manager Mutex, so that no two engine
\* operations, and no engine operation and a tick pass, interleave on the
\* pending set or the batch buffer.
C19_Serialized == []HoldersAgree /\ [][OnlyHolderMoves]_vars

\* a handler is between two statements of its guarded region, having
\* changed the pending set, while the other handler waits at lock() and
\* updates are pending for a tick
C19_Witness ==
    /\ \E t \in InGuard :
           /\ handler[t].done = 1
           /\ Statements(handler[t].op) = 2
           /\ last.reqs # <<>>
    /\ \E u \in HandlerThreads : handler[u].at = "called"
    /\ pending_updates # EmptyMap

\* C20: schedule_update mutates the pending set only: no call changes the
\* World, the clock or the batch buffer (nor the entry pending for another
\* position), and a call whose observed state id is neither Air (0) nor
\* one of the 8 water ids leaves the pending set unchanged as well.
C20_ScheduleFrame ==
    [][last'.op = "schedule_update" =>
          /\ world' = world
          /\ current_tick' = current_tick
          /\ batch_updates' = batch_updates
          /\ \A k \in DOMAIN pending_updates \ {last'.position} :
                 k \in DOMAIN pending_updates' /\ pending_updates'[k] = pending_updates[k]
          /\ DOMAIN pending_updates' \subseteq DOMAIN pending_updates \cup {last'.position}
          /\ last'.reqs[1].fluid_state_id \notin {0} \cup WaterIds =>
                 pending_updates' = pending_updates]_vars

\* schedule_update has been called with the state id of a block that is
\* neither Air nor water, for a position that has an update pending, while
\* the batch buffer holds writes
C20_Witness ==
    /\ last.op = "schedule_update"
    /\ last.reqs[1].fluid_state_id = SolidId
    /\ last.position \in DOMAIN pending_updates
    /\ batch_updates # <<>>
    /\ current_tick > 0

\* schedule_update has been called with a water id and has stored the
\* request while the batch buffer holds writes
C20_WitnessStored ==
    /\ last.op = "schedule_update"
    /\ is_water(last.reqs[1].fluid_state_id)
    /\ last.reqs[1].after # last.reqs[1].before
    /\ batch_updates # <<>>

\* a step of a chain: to the cell above when it is fluid, or to a
\* horizontally adjacent fluid cell of a strictly greater level
ChainStep(w, a, b) ==
    /\ b \in DOMAIN w
    /\ is_water(w[b])
    /\ \/ b = offset(a, "Up")
       \/ /\ \E i \in 1..4 : b = offset(a, HorizontalDirections[i])
          /\ get_water_level(w[b]) > get_water_level(w[a])

RECURSIVE ChainClosure(_, _)
ChainClosure(w, cells) ==
    LET more == cells \cup {b \in DOMAIN w : \E a \in cells : ChainStep(w, a, b)}
    IN  IF more = cells THEN cells ELSE ChainClosure(w, more)

\* the reference reachability: the cell is a Source, or one of its six
\* neighbours is, or a chain from the cell ends at a Source
ReferenceConnection(w, p) ==
    \/ is_source_block(w[p])
    \/ \E i \in 1..6 : LET a == offset(p, AllDirections[i])
                       IN  a \in DOMAIN w /\ is_source_block(w[a])
    \/ \E q \in ChainClosure(w, {p}) : is_source_block(w[q])

\* C21: has_source_connection(p) is true exactly when p is a Source, or one
\* of its six neighbours is a Source, or a chain of up steps to fluid and
\* horizontal steps to fluid of a strictly greater level leads from p to a
\* Source, for every level of p, Flowing(7) included.
C21_AgreesWithReference ==
    (last.op = "search" /\ is_water(world[last.position])) =>
        (last.found <=> ReferenceConnection(world, last.position))

FluidCells(w) == {q \in DOMAIN w : is_water(w[q])}

\* C22: has_source_connection terminates: each position is pushed on the
\* search stack at most once, only fluid cells other than the start are
\* pushed, and so the search makes at most as many pushes as there are
\* fluid cells, whatever levels and columns the fluid cells form.
C22_PushedOnce ==
    last.op = "search" =>
        /\ \A i, j \in 1..Len(last.pushes) : i # j => last.pushes[i] # last.pushes[j]
        /\ \A i \in 1..Len(last.pushes) :
               last.pushes[i] \in FluidCells(world) \ {last.position}
        /\ Len(last.pushes) <= Cardinality(FluidCells(world))

\* a search that found no source has pushed a cell that two cells already
\* visited lead to: the cell above the eastern neighbour, which is also the
\* eastern neighbour of the cell above
C22_Witness ==
    /\ last.op = "search"
    /\ last.searched
    /\ ~last.found
    /\ last.position = <<0, 0, 0>>
    /\ ChainStep(world, <<1, 0, 0>>, <<1, 1, 0>>)
    /\ ChainStep(world, <<0, 1, 0>>, <<1, 1, 0>>)
    /\ {<<1, 0, 0>>, <<0, 1, 0>>, <<1, 1, 0>>} \subseteq SeqToSet(last.pushes)
    /\ world[<<1, 0, 0>>] = world[<<2, 0, 0>>]

\* the cells one horizontal step from a cell of near, the step being into a
\* passable cell
StepFrom(w, near) ==
    {q \in DOMAIN w : /\ Passable(w, q)
                      /\ \E i \in 1..4 : offset(q, HorizontalDirections[i]) \in near}

\* a cell, other than the start, with passable space directly beneath it
OverOpening(w, start, q) ==
    /\ q # start
    /\ offset(q, "Down") \in DOMAIN w
    /\ Passable(w, offset(q, "Down"))

\* the least number of steps, from 1 to 4, in which such a cell is reached
\* from start; -1 if there is none
RECURSIVE NearestOpening(_, _, _, _)
NearestOpening(w, start, near, d) ==
    IF d > 4 THEN -1
    ELSE LET reached == near \cup StepFrom(w, near)
         IN  IF \E q \in reached : OverOpening(w, start, q) THEN d
             ELSE NearestOpening(w, start, reached, d + 1)

ReferenceDistance(w, start) == NearestOpening(w, start, {start}, 1)

\* C23: find_path_downward(start) returns Some(d), 1 <= d <= 4, exactly when
\* d is the least number of horizontal steps through passable cells from
\* start to a passable cell with passable space directly beneath it, and
\* None when there is no such cell within 4 steps.
C23_ShortestOpening ==
    last.op = "path" => last.distance = ReferenceDistance(world, last.start_pos)

\* the nearest opening is four steps from the start, around a wall
C23_Witness ==
    /\ last.op = "path"
    /\ last.distance = 4
    /\ last.start_pos = <<0, 1, 0>>

\* the weight of a direction as the flow rule words it: 0 for a passable
\* neighbour on solid support, the distance of the path finder for a passable
\* neighbour without it, the sentinel for a blocked neighbour or no path
DirectionWeight(w, position, direction) ==
    LET adjacent_pos == offset(position, direction)
        below_adjacent == offset(adjacent_pos, "Down")
        blocked == ~ReadOk(adjacent_pos) \/ ~Passable(w, adjacent_pos)
        supported == ReadOk(below_adjacent) /\ ~Passable(w, below_adjacent)
    IN  CASE blocked -> 1000
          [] ~blocked /\ supported -> 0
          [] ~blocked /\ ~supported /\ find_path_downward(w, adjacent_pos) = -1 -> 1000
          [] OTHER -> find_path_downward(w, adjacent_pos)

LeastWeight(w, position) ==
    CHOOSE m \in {DirectionWeight(w, position, d) : d \in SeqToSet(HorizontalDirections)} :
        \A d \in SeqToSet(HorizontalDirections) : m <= DirectionWeight(w, position, d)

\* the horizontal directions into whose cell the last resolution pushed a write
PlacedInto(h) ==
    {d \in SeqToSet(HorizontalDirections) :
        \E j \in 1..Len(h.pushed) : h.pushed[j][1] = offset(h.position, d)}

SourceResolved == last.op = "resolve" /\ last.br = "source"

\* C24: a Source update places Flowing(7) into a horizontal neighbour only
\* if the weight of that direction is the least of the four weights, and it
\* places nothing horizontally when all four weights are the sentinel 1000
C24_OnlyLeastWeight ==
    SourceResolved =>
        /\ \A d \in PlacedInto(last) :
              /\ DirectionWeight(world, last.position, d) = LeastWeight(world, last.position)
              /\ \A j \in 1..Len(last.pushed) :
                    last.pushed[j][1] = offset(last.position, d)
                        => last.pushed[j][2] = WATER_LEVEL_7_STATE_ID
        /\ LeastWeight(world, last.position) = 1000 => PlacedInto(last) = {}

\* a source resolved with a direction of weight 1 placed into and a passable
\* direction with a longer path left alone
C24_Witness ==
    /\ SourceResolved
    /\ LeastWeight(world, last.position) = 1
    /\ PlacedInto(last) # {}
    /\ \E d \in SeqToSet(HorizontalDirections) \ PlacedInto(last) :
           DirectionWeight(world, last.position, d) \in 2..999

\* the last step resolved a Source, or a Flowing cell with source connection
FlowResolved == last.op = "resolve" /\ last.br \in {"source", "flow"}

CellBelow(h) == offset(h.position, "Down")

\* the requests the resolution h made for pos
RequestsFor(h, pos) == {i \in 1..Len(h.reqs) : h.reqs[i].position = pos}

\* the resolution h wrote pos, through the batch buffer or directly
Wrote(h, pos) ==
    \/ \E j \in 1..Len(h.pushed) : h.pushed[j][1] = pos
    \/ \E j \in 1..Len(h.imm) : h.imm[j][1] = pos

\* C25 (what the resolution itself does): with Air or non-source flowing
\* water below, (below, Flowing(7)) is added to the batch buffer and an update
\* for the cell below is requested at priority 3 and is pending afterwards;
\* with a Source or a non-fluid block below, the cell below is not written
C25_DownwardRequested ==
    (FlowResolved /\ ReadOk(CellBelow(last))) =>
        IF world[CellBelow(last)] = 0 \/ FlowingAt(world, CellBelow(last))
        THEN /\ \E j \in 1..Len(last.pushed) :
                    last.pushed[j] = <<CellBelow(last), WATER_LEVEL_7_STATE_ID>>
             /\ \E i \in RequestsFor(last, CellBelow(last)) :
                    /\ last.reqs[i].priority = 3
                    /\ last.reqs[i].fluid_state_id = WATER_LEVEL_7_STATE_ID
             /\ CellBelow(last) \in DOMAIN pending_updates
        ELSE ~Wrote(last, CellBelow(last))

\* C25: downward propagation.  When a Source or a Flowing cell with source
\* connection is resolved over Air or non-source flowing water, the cell
\* below is Flowing(7) after the flush of that tick and an update for it is
\* requested at priority 3 and pending; over a Source or a non-fluid block
\* the cell below is not written
C25_DownwardPropagation ==
    /\ (FlowResolved /\ ReadOk(CellBelow(last))) =>
          IF world[CellBelow(last)] = 0 \/ FlowingAt(world, CellBelow(last))
          THEN /\ \E i \in RequestsFor(last, CellBelow(last)) : last.reqs[i].priority = 3
               /\ CellBelow(last) \in DOMAIN pending_updates
          ELSE ~Wrote(last, CellBelow(last))
    /\ last.op = "flush" =>
          \A j \in 1..Len(batch_updates) :
              batch_kinds[j] = "down" => world[batch_updates[j][1]] = WATER_LEVEL_7_STATE_ID

\* a source over air resolved: the write and the request for the cell below
C25_Witness ==
    /\ FlowResolved
    /\ last.br = "source"
    /\ ReadOk(CellBelow(last))
    /\ world[CellBelow(last)] = 0
    /\ Wrote(last, CellBelow(last))

\* the last step resolved the update of a cell that was Air, with fewer than
\* two horizontally adjacent Sources
AirResolved ==
    /\ last.op = "resolve"
    /\ last.cur = 0
    /\ adjacent_source_count(world, last.position) < 2

WaterAbove(w, pos) == ReadOk(offset(pos, "Up")) /\ is_water(w[offset(pos, "Up")])

\* C26: when the update of an Air cell with fewer than 2 horizontally adjacent
\* Sources is resolved and the cell above is a water cell, the cell is
\* Flowing(7) in the World when the resolution returns, an update observing
\* Flowing(7) is requested for it and an update for it is pending
C26_AirUnderFluid ==
    (AirResolved /\ WaterAbove(world, last.position)) =>
        /\ world[last.position] = WATER_LEVEL_7_STATE_ID
        /\ \E i \in RequestsFor(last, last.position) :
              last.reqs[i].fluid_state_id = WATER_LEVEL_7_STATE_ID
        /\ \A i \in RequestsFor(last, last.position) :
              last.reqs[i].fluid_state_id = WATER_LEVEL_7_STATE_ID
        /\ last.position \in DOMAIN pending_updates

\* an Air cell under flowing water and one under a Source resolved
C26_Witness ==
    /\ AirResolved
    /\ WaterAbove(world, last.position)
    /\ FlowingAt(world, offset(last.position, "Up"))
    /\ world[last.position] = WATER_LEVEL_7_STATE_ID

\* C26 read on the pending set: the update pending for the cell observes
\* Flowing(7)
C26_PendingObservesPlaced ==
    (AirResolved /\ WaterAbove(world, last.position)) =>
        /\ last.position \in DOMAIN pending_updates
        /\ pending_updates[last.position].fluid_state_id = WATER_LEVEL_7_STATE_ID

\* the levels of the horizontal fluid neighbours of pos, a Source counting as 8
InflowLevels(w, pos) ==
    {IF is_source_block(w[offset(pos, d)]) THEN 8 ELSE get_water_level(w[offset(pos, d)]) :
        d \in {e \in SeqToSet(HorizontalDirections) :
                  ReadOk(offset(pos, e)) /\ is_water(w[offset(pos, e)])}}

\* the maximum level m among them, 0 without a horizontal fluid neighbour
MaxInflow(w, pos) ==
    CHOOSE m \in InflowLevels(w, pos) \cup {0} : \A l \in InflowLevels(w, pos) : l <= m

SolidBelow(w, pos) == ReadOk(offset(pos, "Down")) /\ ~Passable(w, offset(pos, "Down"))

AirBesideFluid == AirResolved /\ ~WaterAbove(world, last.position)

\* C27: when the update of an Air cell with fewer than 2 adjacent Sources and
\* no fluid above is resolved, the cell becomes Flowing(m - 1), m the maximum
\* level among its horizontal fluid neighbours (a Source counting as 8),
\* exactly when the cell below is solid and m - 1 > 0; in every other case
\* the cell stays Air and no update is scheduled
C27_AirInflow ==
    AirBesideFluid =>
        IF SolidBelow(world, last.position) /\ MaxInflow(world, last.position) - 1 > 0
        THEN /\ world[last.position]
                    = get_state_id_for_level(MaxInflow(world, last.position) - 1)
             /\ is_water(world[last.position])
             /\ ~is_source_block(world[last.position])
        ELSE /\ world[last.position] = 0
             /\ last.reqs = <<>>
             /\ last.pushed = <<>>

\* an Air cell on solid ground beside Flowing(7) resolved to Flowing(6)
C27_Witness ==
    /\ AirBesideFluid
    /\ MaxInflow(world, last.position) = 7
    /\ world[last.position] = WATER_LEVEL_6_STATE_ID

\* an Air cell beside water with nothing solid below it, left Air
C27_WitnessUnsupported ==
    /\ AirBesideFluid
    /\ MaxInflow(world, last.position) > 1
    /\ ~SolidBelow(world, last.position)
    /\ world[last.position] = 0

\* the last step resolved a Flowing(L) cell, L > 1, without source connection
DecayResolved == last.op = "resolve" /\ last.br = "decay"

\* the neighbours the cascade of the last decay collected, in ascending
\* order of level, as pairs <<position, level>>
Collected ==
    sort_by_level(receding_neighbours(world, last.position,
                                      get_water_level(last.cur) - 1))

PendingAt(pos, tick, priority) ==
    /\ pos \in DOMAIN pending_updates
    /\ pending_updates[pos].tick_scheduled = tick
    /\ pending_updates[pos].priority = priority

\* C28: receding cascade schedule.  When a Flowing(L) cell with L > 1 has
\* decayed, the collected neighbour of rank i (from 0, in ascending order of
\* level) has a pending update due at now + 5 + i with priority 3 - min(i, 3),
\* and the decaying cell has a pending update observing its new level, due at
\* now + 5 + n, later than the due tick of every collected neighbour
C28_CascadeSchedule ==
    DecayResolved =>
        /\ \A i \in 0..(Len(Collected) - 1) :
              PendingAt(Collected[i + 1][1], ScheduledTick(i), cascade_priority(i))
        /\ last.position \in DOMAIN pending_updates
        /\ pending_updates[last.position].fluid_state_id
              = get_state_id_for_level(get_water_level(last.cur) - 1)
        /\ pending_updates[last.position].tick_scheduled = ScheduledTick(Len(Collected))
        /\ \A i \in 1..Len(Collected) :
              /\ Collected[i][1] \in DOMAIN pending_updates
              /\ pending_updates[Collected[i][1]].tick_scheduled
                    < pending_updates[last.position].tick_scheduled

\* 3 - min(i, 3)
PriorityOfRank(i) == IF i = 0 THEN 3 ELSE IF i = 1 THEN 2 ELSE IF i = 2 THEN 1 ELSE 0

Vertical(pos) == {offset(pos, "Up"), offset(pos, "Down")}

Requested(r, pos, state_id, delay, priority) ==
    /\ r.position = pos
    /\ r.fluid_state_id = state_id
    /\ r.delay = delay
    /\ r.priority = priority

\* C28, as the decay branch behaves: it requests an update for the collected
\* neighbour of rank i with delay i and priority 3 - min(i, 3), observing the
\* neighbour's level, then one for the decaying cell with delay n and
\* priority 1, observing its new level, and last one with delay 0 and
\* priority 3 for every flowing cell above and below; when it has finished,
\* the neighbour of rank i has a pending update due at now + 5 + i or sooner,
\* a flowing cell above or below one due at now + 5 or sooner, and the
\* decaying cell one due at now + 5 + n or sooner
C28_CascadeRequests ==
    DecayResolved =>
        LET n == Len(Collected)
            new_state_id == get_state_id_for_level(get_water_level(last.cur) - 1)
        IN  /\ Len(last.reqs) >= n + 1
            /\ \A i \in 0..(n - 1) :
                  /\ Requested(last.reqs[i + 1], Collected[i + 1][1],
                               get_state_id_for_level(Collected[i + 1][2]),
                               i, PriorityOfRank(i))
                  /\ Collected[i + 1][1] \in DOMAIN pending_updates
                  /\ pending_updates[Collected[i + 1][1]].tick_scheduled
                        <= current_tick + 5 + i
                  /\ Collected[i + 1][1] \in Vertical(last.position)
                        => pending_updates[Collected[i + 1][1]].tick_scheduled
                              <= current_tick + 5
            /\ Requested(last.reqs[n + 1], last.position, new_state_id, n, 1)
            /\ \A j \in (n + 2)..Len(last.reqs) :
                  /\ last.reqs[j].position \in Vertical(last.position)
                  /\ last.reqs[j].delay = 0
                  /\ last.reqs[j].priority = 3
            /\ last.position \in DOMAIN pending_updates
            /\ pending_updates[last.position].tick_scheduled <= current_tick + 5 + n

\* a decay that collected a flowing cell above or below at rank 1 or more
C28_Witness ==
    /\ DecayResolved
    /\ \E i \in 2..Len(Collected) : Collected[i][1] \in Vertical(last.position)

\* the horizontal neighbours without solid support below into which the
\* last resolution placed water
PlacedOverDrop(h) ==
    {offset(h.position, d) : d \in {e \in PlacedInto(h) :
                                      ~SolidBelow(world, offset(h.position, e))}}

\* C29: source waterfall scheduling.  When a Source update places Flowing(7)
\* into a horizontal neighbour that has no solid support below, the update
\* it schedules for the spread cell and the one it schedules for the cell
\* below it have the top priority 3
C29_SourceWaterfallTop ==
    SourceResolved =>
        \A side \in PlacedOverDrop(last) :
            /\ \E i \in RequestsFor(last, side) : last.reqs[i].priority = 3
            /\ \E i \in RequestsFor(last, offset(side, "Down")) : last.reqs[i].priority = 3

\* what the Source update does instead: both requests are made at priority 2
C29_SourceWaterfallSecond ==
    SourceResolved =>
        \A side \in PlacedOverDrop(last) :
            /\ RequestsFor(last, side) # {}
            /\ \A i \in RequestsFor(last, side) : last.reqs[i].priority = 2
            /\ \E i \in RequestsFor(last, offset(side, "Down")) : last.reqs[i].priority = 2

\* a Source resolved that placed water beside it over a drop
C29_Witness ==
    /\ SourceResolved
    /\ PlacedOverDrop(last) # {}
    /\ \E side \in PlacedOverDrop(last) :
           /\ side \in DOMAIN pending_updates
           /\ pending_updates[side].priority = 2

\* the last step resolved a Flowing(L) cell, L > 1, with source connection
StreamResolved ==
    /\ last.op = "resolve"
    /\ last.br = "flow"
    /\ get_water_level(last.cur) > 1

\* the horizontal neighbours of pos that are passable over passable space
OverDrop(w, pos) ==
    {offset(pos, d) : d \in {e \in SeqToSet(HorizontalDirections) :
        /\ ReadOk(offset(pos, e))
        /\ Passable(w, offset(pos, e))
        /\ ReadOk(offset(offset(pos, e), "Down"))
        /\ Passable(w, offset(offset(pos, e), "Down"))}}

\* C30: waterfall cells appear in the same tick.  When a Flowing(L) cell with
\* L > 1 and source connection is resolved, every horizontal neighbour that
\* is passable over passable space is Flowing(L - 1) in the World when the
\* resolution returns, before the flush of the tick, by a direct write, and
\* updates for the neighbour and for the cell below it are requested at
\* priority 3, the one for the cell below observing Air
C30_WaterfallSameTick ==
    StreamResolved =>
        \A side \in OverDrop(world, last.position) :
            /\ pc \in {"process", "flush"}
            /\ world[side] = get_state_id_for_level(get_water_level(last.cur) - 1)
            /\ \E j \in 1..Len(last.imm) :
                  /\ last.imm[j][1] = side
                  /\ last.imm[j][2] = get_state_id_for_level(get_water_level(last.cur) - 1)
            /\ \E i \in RequestsFor(last, side) :
                  /\ last.reqs[i].priority = 3
                  /\ last.reqs[i].fluid_state_id = world[side]
            /\ \E i \in RequestsFor(last, offset(side, "Down")) :
                  /\ last.reqs[i].priority = 3
                  /\ last.reqs[i].fluid_state_id = 0

\* a Flowing(7) cell beside its source resolved: the Air cell beside it, over
\* Air, is Flowing(6) before the flush
C30_Witness ==
    /\ StreamResolved
    /\ pc = "flush"
    /\ \E side \in OverDrop(world, last.position) :
           /\ world[side] = WATER_LEVEL_6_STATE_ID
           /\ world[offset(side, "Down")] = 0
           /\ \E j \in 1..Len(last.imm) : last.imm[j] = <<side, WATER_LEVEL_6_STATE_ID, 0>>

\* the requests of the last engine call that schedule_update stored
Stored(h) ==
    {i \in 1..Len(h.reqs) : h.reqs[i].after # <<>> /\ h.reqs[i].after # h.reqs[i].before}

\* C31: due-tick arithmetic on the wrapping clock.  For every value of the
\* tick counter the update that schedule_update stores is due at
\* now + 5 + delay, so that it is not due at any of the 4 + delay tick
\* invocations that follow the call
C31_DueTickAhead ==
    \A i \in Stored(last) :
        /\ last.reqs[i].after[1].tick_scheduled
              = current_tick + FLUID_TICK_RATE + last.reqs[i].delay
        /\ \A k \in 1..(FLUID_TICK_RATE + last.reqs[i].delay - 1) :
              ~is_due(last.reqs[i].after[1], (current_tick + k) % TickModulus)

\* the process loop of tick (fluid.rs:228-230) over updates, in their order
RECURSIVE resolve_in_order(_, _)
resolve_in_order(st, updates) ==
    IF updates = <<>> THEN st
    ELSE resolve_in_order(process_fluid_update(st, Head(updates)), Tail(updates))

\* the World and the pending set a tick leaves when, from the world and the
\* pending set it was called on, it resolves updates in their order
TickResult(updates) ==
    LET st == resolve_in_order(St(snap.w0, MapRemove(snap.p0, removed_keys(updates)),
                                  <<>>, <<>>), updates)
    IN  [w |-> apply_batch(st.w, st.b), p |-> st.p]

\* updates with two neighbours of equal priority in the other order
TieSwaps(updates) ==
    {[k \in 1..Len(updates) |->
         IF k = i THEN updates[i + 1] ELSE IF k = i + 1 THEN updates[i] ELSE updates[k]] :
       i \in {j \in 1..(Len(updates) - 1) : updates[j].priority = updates[j + 1].priority}}

TickFlushed == last.op = "flush" /\ snap.active

\* the replay of the tick in the order it took gives the state it left
ReplayAgrees ==
    TickFlushed => TickResult(resolved) = [w |-> world, p |-> pending_updates]

\* C32: tie-order independence.  A tick that resolves two due updates of
\* equal priority in the other order, from the same world, clock and pending
\* set, leaves the same World after the flush and the same pending set
C32_TieOrderIndependent ==
    TickFlushed =>
        \A other \in TieSwaps(resolved) :
            TickResult(other) = [w |-> world, p |-> pending_updates]

\* no update is due at the tick that follows: the pending set is empty or
\* every entry has a due tick after it
NothingDue ==
    \A k \in DOMAIN pending_updates :
        pending_updates[k].tick_scheduled > (current_tick + 1) % TickModulus

TickCalled == pc = "idle" /\ last'.op \in {"tick_return", "tick_gather"}

\* C33: a tick in which no pending update is due advances the clock by
\* exactly one and changes nothing else, no World cell and no pending entry,
\* and every tick call advances the clock by exactly one
C33_IdleTickFrame ==
    [][TickCalled =>
          /\ current_tick' = (current_tick + 1) % TickModulus
          /\ NothingDue =>
                /\ world' = world
                /\ pending_updates' = pending_updates
                /\ batch_updates' = batch_updates
                /\ pc' = "idle"]_vars

\* a tick with nothing due has returned while the batch buffer holds writes
\* of an earlier tick that an external call has since undone in the World
C33_Witness ==
    /\ last.op = "tick_return"
    /\ pending_updates # EmptyMap
    /\ \E j \in 1..Len(batch_updates) :
           world[batch_updates[j][1]] # batch_updates[j][2]

\* Air or one of the 8 water state ids
ValidStateId(id) ==
    id \in {0, WATER_SOURCE_STATE_ID, WATER_LEVEL_1_STATE_ID, WATER_LEVEL_2_STATE_ID,
            WATER_LEVEL_3_STATE_ID, WATER_LEVEL_4_STATE_ID, WATER_LEVEL_5_STATE_ID,
            WATER_LEVEL_6_STATE_ID, WATER_LEVEL_7_STATE_ID}

\* C34: only valid state ids circulate.  The observed state of every pending
\* update and the state of every batched or direct write of the engine is
\* Air or one of the 8 water state ids, and a batched write is Air only where
\* a Flowing(1) cell vanishes and a direct write only in remove_fluid: no
\* spread and no decay writes Air
C34_ValidStateIds ==
    /\ \A k \in DOMAIN pending_updates : ValidStateId(pending_updates[k].fluid_state_id)
    /\ \A j \in 1..Len(batch_updates) :
          /\ ValidStateId(batch_updates[j][2])
          /\ batch_updates[j][2] = 0 => batch_kinds[j] = "vanish"
    /\ \A j \in 1..Len(last.imm) :
          /\ ValidStateId(last.imm[j][2])
          /\ last.imm[j][2] = 0 => last.op = "remove_fluid"
    /\ \A i \in 1..Len(last.reqs) : ValidStateId(last.reqs[i].fluid_state_id)

\* a Flowing(2) cell with source connection has spread Flowing(1)
C34_Witness ==
    /\ last.op = "resolve"
    /\ last.cur = WATER_LEVEL_2_STATE_ID
    /\ last.br = "flow"
    /\ \E j \in 1..Len(last.pushed) : last.pushed[j][2] = WATER_LEVEL_1_STATE_ID

\* the tick has just gathered: the positions that were due when it was called
DueAtGather ==
    {k \in DOMAIN snap.p0 : is_due(snap.p0[k], current_tick)}

Overloaded ==
    /\ last.op = "tick_gather"
    /\ Cardinality(DueAtGather) > MAX_UPDATES_PER_TICK

\* C35: priority is respected under overload.  When more than the cap of
\* updates are due in a tick, no due update is left pending while a due
\* update of strictly lower priority is drained in that tick
C35_PriorityUnderOverload ==
    Overloaded =>
        \A left \in DueAtGather \cap DOMAIN pending_updates :
            \A i \in 1..Len(updates_to_process) :
                updates_to_process[i].priority >= snap.p0[left].priority

\* no tick call is running and nothing is pending
Quiescent == pc = "idle" /\ DOMAIN pending_updates = {}
\* the cells holding flowing water
FlowingCells == {p \in Loaded : is_water(world[p]) /\ ~is_source_block(world[p])}
OnlySourceRemoved ==
    /\ calls = 2
    /\ \A p \in Loaded : ~is_source_block(world[p])

\* C36: disconnected water eventually drains. Once remove_fluid has removed
\* the only source and no further call is made, repeated ticks lead to a
\* state with no flowing cell and an empty pending set.
C36_EventuallyDrains ==
    OnlySourceRemoved ~> (Quiescent /\ FlowingCells = {})

\* C36, the state that refutes it: the source is gone, no update is pending,
\* and flowing water is left that no later tick will touch.
C36_Stranded ==
    /\ OnlySourceRemoved
    /\ Quiescent
    /\ FlowingCells # {}
    /\ last.op = "flush"
    /\ Len(resolved) = 1
    /\ last.pushed = <<>>

PlacedDuringPass ==
    {p \in Loaded : snap.active /\ world[p] = SolidId /\ snap.w0[p] # SolidId}

\* C38: the flush does not clobber concurrent world changes. A non-fluid block
\* that another system wrote to a position while the tick pass was under way,
\* after the pass had queued a fluid write for that position, is still there
\* when the flush at the end of the tick has been applied.
C38_FlushKeepsBlocks ==
    [][(pc = "flush" /\ pc' = "idle") =>
           \A p \in PlacedDuringPass : world'[p] = SolidId]_vars

\* the positions that hold a fluid state the engine wrote in the tick pass or
\* the add_fluid_source call that has just completed
FreshFluid ==
    IF last.op = "flush"
    THEN {p \in Loaded : snap.active /\ is_water(world[p]) /\ world[p] # snap.w0[p]}
    ELSE IF last.op = "add_fluid_source" /\ is_water(world[last.position]) /\ last.cur # world[last.position]
    THEN {last.position}
    ELSE {}

\* C39: every placed fluid cell gets a matching follow-up. Once the tick or
\* the call that wrote a fluid state to a position has completed, the pending
\* set holds an update for that position whose observed state is the state
\* written.
C39_MatchingFollowUp ==
    \A p \in FreshFluid :
        /\ p \in DOMAIN pending_updates
        /\ pending_updates[p].fluid_state_id = world[p]

====
